---------------------------- MODULE Spec2Model ----------------------------
(***************************************************************************)
(* A model of gomtb-manifest: the disk-backed manifest cache               *)
(* (mtbmanifest/netcache.go) with its background refresh worker, and the   *)
(* bounded-concurrency fetcher built on it.                                *)
(*                                                                         *)
(* Bytes are integers 0..255, strings and files are sequences of bytes.    *)
(* The file system is POSIX: a directory maps paths to inodes, an open     *)
(* file descriptor names an inode and carries its own offset.              *)
(***************************************************************************)
EXTENDS Integers, Sequences, FiniteSets, TLC

VARIABLES
    fs,            \* cache directory: path -> inode id (DOMAIN fs = existing files)
    inodes,        \* inode id -> [data: bytes, stale: age >= ttl]
    refreshQueue,  \* ManifestCache.refreshQueue: buffered channel of URLs
    refreshing,    \* ManifestCache.refreshing: set of URLs marked in progress
    closed,        \* refreshQueue has been closed
    panicked,      \* the process died of a Go runtime panic
    th,            \* per goroutine: program counter and locals
    opsLeft,       \* calls the clients may still start
    elapsesLeft,   \* times the TTL may still elapse
    fetcher,       \* ManifestFetcher: its limiter and the goroutines of its calls
    lib            \* a call of a function without shared state: its input and its result

cacheVars == <<fs, inodes, refreshQueue, refreshing, closed, panicked, th, opsLeft, elapsesLeft>>
nonCacheVars == <<fetcher, lib>>
nonFetchVars == <<cacheVars, lib>>
nonLibVars == <<cacheVars, fetcher>>
vars == <<cacheVars, fetcher, lib>>

---------------------------------------------------------------------------
(* Bounds of the model *)

\* client calls started in one behaviour of the concurrent cache model
MaxOps == 2

\* Gets started in one behaviour of the damaged-cache model
MaxDamagedOps == 1

\* Gets started in one behaviour of the cold-cache model
MaxRaceOps == 3

\* times a TTL's worth of time passes in one behaviour
MaxElapses == 1

\* payload lengths around 0 and around the compression threshold
MaxDelta == 2

\* largest ceiling a fetcher is created with
MaxCeiling == 2

\* items submitted to one FetchAllWithCb
MaxItems == 2

\* URLs submitted to the FetchAll that overlaps it
MaxOverlap == 1

\* stale entries beyond the one the worker can hold and the queue's capacity
MaxOverflow == 1

\* client calls started in one behaviour of the full-queue model
MaxQueueOps == 2

\* length of the capability strings that are parsed
MaxCapLen == 5

\* groups of a requirement that is built without the parser
MaxLiteralGroups == 2

\* dependency manifests: the component ids, the versions of a component and
\* the longest list of dependees of one version
MaxIds == 3
MaxVers == 2
MaxDeps == 2

\* BSP dependencies manifests: the BSP and library ids, the dependers of a
\* manifest, the versions of a depender, the dependees of a version, and
\* the calls and changes made in one behaviour
MaxBspIds == 2
MaxDependers == 1
MaxBspVersions == 1
MaxBspDependees == 1
MaxBspOps == 5

\* super manifests: the board, middleware and app references of a root
\* document and the items of a child document
MaxBoardRefs == 2
MaxMiddlewareRefs == 1
MaxAppRefs == 1
MaxChildItems == 1

\* lookups made in one behaviour of the merge of two trees
MaxMergeOps == 3

\* calls made in one behaviour of the lookups of a dependencies document
MaxByIdOps == 2

\* entries of the lists of a Manifest, and calls made on it in one behaviour
MaxDependencies == 3
MaxBoards == 2
MaxApps == 2
MaxManifestOps == 1

\* Gets started in one behaviour of the stale-entry model
MaxStaleOps == 2

\* calls and worker rounds in one behaviour of the command-line tool's cache
MaxCmdOps == 4

\* dependers of a manifest, and versions of a depender, in the model of the
\* reverse index
MaxFindDependers == 2
MaxFindVersions == 2

\* characters of a version string given to ParseVersion
MaxVersionLen == 4

\* calls made on the cache in the model with Clear and ClearStale
MaxClearOps == 3

\* bytes by which the URLs of the header model go beyond "h://a/b" and
\* around the largest length the header's field holds
MaxUrlPad == 16

---------------------------------------------------------------------------
(* Bytes and strings *)

Byte == 0..255

ChM == 77
ChC == 67
ChColon == 58
ChSlash == 47
ChQuery == 63
ChUnder == 95
ChDot == 46

RECURSIVE XorBits(_, _, _)
\* the bits i..7 of a ^ b
XorBits(a, b, i) ==
    IF i > 7 THEN 0
    ELSE (IF ((a \div (2 ^ i)) % 2) # ((b \div (2 ^ i)) % 2) THEN 2 ^ i ELSE 0)
         + XorBits(a, b, i + 1)

Xor8(a, b) == XorBits(a, b, 0)

RECURSIVE XorFold(_, _, _)
\* data[lo] ^ ... ^ data[hi]; the loop's left-to-right fold, halved (^ is associative)
XorFold(data, lo, hi) ==
    IF lo > hi THEN 0
    ELSE IF lo = hi THEN data[lo]
    ELSE Xor8(XorFold(data, lo, (lo + hi) \div 2), XorFold(data, ((lo + hi) \div 2) + 1, hi))

simpleChecksum(data) == XorFold(data, 1, Len(data))

\* first index of byte b in s, 0 when absent
IndexOfByte(s, b) ==
    IF \E i \in 1..Len(s) : s[i] = b
    THEN CHOOSE i \in 1..Len(s) : s[i] = b /\ \A j \in 1..(i - 1) : s[j] # b
    ELSE 0

Drop(s, n) == SubSeq(s, n + 1, Len(s))
Take(s, n) == SubSeq(s, 1, n)

HasPrefix(s, p) == Len(s) >= Len(p) /\ Take(s, Len(p)) = p

\* strings.ReplaceAll(s, old, "_") for a one-byte old
ReplaceByte(s, old) == [i \in 1..Len(s) |-> IF s[i] = old THEN ChUnder ELSE s[i]]

---------------------------------------------------------------------------
(* net/url.Parse, as far as urlToFilename uses it: Host and Path *)

IsLetter(b) == (b >= 97 /\ b <= 122) \/ (b >= 65 /\ b <= 90)
IsSchemeChar(b, i) == IsLetter(b) \/ (i > 1 /\ ((b >= 48 /\ b <= 57) \/ b \in {43, 45, 46}))

\* index of the ':' that ends the scheme, 0 when the URL has no scheme
SchemeEnd(s) ==
    LET bad == {i \in 1..Len(s) : ~IsSchemeChar(s[i], i)}
    IN  IF bad = {} THEN 0
        ELSE LET i == CHOOSE k \in bad : \A j \in bad : k <= j
             IN  IF s[i] = ChColon /\ i > 1 THEN i ELSE 0

\* the URL without scheme and without query
SchemeLess(s) == Drop(s, SchemeEnd(s))
BeforeQuery(s) == IF IndexOfByte(s, ChQuery) = 0 THEN s ELSE Take(s, IndexOfByte(s, ChQuery) - 1)

\* parsed.Host + parsed.Path
HostPlusPath(s) ==
    LET rest == BeforeQuery(SchemeLess(s))
    IN  IF HasPrefix(rest, <<ChSlash, ChSlash>>)
        THEN Drop(rest, 2)               \* authority, then the path from its first "/"
        ELSE IF SchemeEnd(s) # 0 /\ ~HasPrefix(rest, <<ChSlash>>)
             THEN <<>>                   \* opaque URL: Host and Path are empty
             ELSE rest

\* the cache file of a URL, relative to cacheDir
urlToFilename(urlStr) ==
    ReplaceByte(ReplaceByte(ReplaceByte(HostPlusPath(urlStr), ChSlash), ChColon), ChQuery)

TmpSuffix == <<ChDot, 116, 109, 112>>

---------------------------------------------------------------------------
(* compress/gzip, by its contract: a lossless coding with a magic header   *)
(* whose output is shorter than a redundant input and longer than an       *)
(* input without redundancy. A run of one byte is coded by its length,     *)
(* anything else is stored.                                                *)

GzMagic == <<31, 139>>

IsRun(c) == Len(c) > 0 /\ \A i \in 1..Len(c) : c[i] = c[1]

Gzip(c) ==
    IF IsRun(c) /\ Len(c) < 65536
    THEN GzMagic \o <<1, c[1], Len(c) \div 256, Len(c) % 256>>
    ELSE GzMagic \o <<0>> \o c

\* gzip.NewReader followed by io.ReadAll: [ok, data]
Gunzip(z) ==
    IF Len(z) < 3 \/ Take(z, 2) # GzMagic THEN [ok |-> FALSE, data |-> <<>>]
    ELSE IF z[3] = 0 THEN [ok |-> TRUE, data |-> Drop(z, 3)]
    ELSE IF z[3] = 1 /\ Len(z) = 6
         THEN [ok |-> TRUE, data |-> [i \in 1..(z[5] * 256 + z[6]) |-> z[4]]]
         ELSE [ok |-> FALSE, data |-> <<>>]

---------------------------------------------------------------------------
(* The cache file format *)

compressionThreshold == 10240
compressionFlag == 1
HeaderSize == 7

\* a choice that compresses from the threshold on
StoredFormAtThreshold(content) ==
    IF Len(content) >= compressionThreshold /\ Len(Gzip(content)) < Len(content)
    THEN [flags |-> compressionFlag, finalContent |-> Gzip(content)]
    ELSE [flags |-> 0, finalContent |-> content]

\* writeCache's choice of the stored form: [flags, finalContent]
StoredForm(content) ==
    IF Len(content) > compressionThreshold /\ Len(Gzip(content)) < Len(content)
    THEN [flags |-> compressionFlag, finalContent |-> Gzip(content)]
    ELSE [flags |-> 0, finalContent |-> content]

\* binary.Write(f, binary.BigEndian, &header)
HeaderBytes(urlStr, content) ==
    <<ChM, ChC, 1, StoredForm(content).flags, simpleChecksum(urlStr),
      (Len(urlStr) % 65536) \div 256, Len(urlStr) % 256>>

\* the header fields of a file of at least HeaderSize bytes
HdrMagic(f) == <<f[1], f[2]>>
HdrVersion(f) == f[3]
HdrFlags(f) == f[4]
HdrChecksum(f) == f[5]
HdrURLSize(f) == f[6] * 256 + f[7]

\* a validation that accepts any version
validateHeaderAnyVersion(f, urlStr) ==
    /\ HdrMagic(f) = <<ChM, ChC>>
    /\ HdrChecksum(f) = simpleChecksum(urlStr)

\* validateHeader: magic, version, and the checksum of the URL
validateHeader(f, urlStr) ==
    /\ HdrMagic(f) = <<ChM, ChC>>
    /\ HdrVersion(f) = 1
    /\ HdrChecksum(f) = simpleChecksum(urlStr)

\* a read that found no usable entry
Failed == [ok |-> FALSE, data |-> <<>>]

\* readCache on the bytes f of the opened file: [ok, data]
readCacheBytes(f, urlStr) ==
    IF Len(f) < HeaderSize THEN Failed
    ELSE IF Len(f) < HeaderSize + HdrURLSize(f) THEN Failed
    ELSE LET readUrlStr == SubSeq(f, HeaderSize + 1, HeaderSize + HdrURLSize(f))
             content == Drop(f, HeaderSize + HdrURLSize(f))
         IN  IF readUrlStr # urlStr THEN Failed
             ELSE IF ~validateHeader(f, readUrlStr) THEN Failed
             ELSE IF HdrFlags(f) % 2 = 1 THEN Gunzip(content)
             ELSE [ok |-> TRUE, data |-> content]

\* readUrlFromCache on the bytes f: [ok, url]
readUrlFromCacheBytes(f) ==
    IF Len(f) < HeaderSize THEN [ok |-> FALSE, url |-> <<>>]
    ELSE IF Len(f) < HeaderSize + HdrURLSize(f) THEN [ok |-> FALSE, url |-> <<>>]
    ELSE LET urlStr == SubSeq(f, HeaderSize + 1, HeaderSize + HdrURLSize(f))
         IN  IF validateHeader(f, urlStr) THEN [ok |-> TRUE, url |-> urlStr]
             ELSE [ok |-> FALSE, url |-> <<>>]

---------------------------------------------------------------------------
(* The processes and the inputs *)

Clients == {"c1", "c2"}
Worker == "w"
Threads == Clients \cup {Worker}

\* "h://a/b" and "s://a/b": two URLs with one cache file name, "a_b"
UrlHab == <<104, 58, 47, 47, 97, 47, 98>>
UrlSab == <<115, 58, 47, 47, 97, 47, 98>>
URLS == {UrlHab, UrlSab}

\* what the origin server may answer: the first document changes between two
\* fetches, the second does not
Served(u) == IF u = UrlHab THEN {<<u[1]>>, <<u[1] + 1, u[1] + 1>>} ELSE {<<u[1], u[1]>>}

\* capacity of refreshQueue: make(chan string, 100)
RefreshQueueCap == 100

NoPanic == "none"

\* the two calls on one fetcher, and the goroutines they start
CallWithCb == "FetchAllWithCb"
CallPlain == "FetchAll"
CallIds == {CallWithCb, CallPlain}
TaskIds == ({CallWithCb} \X (1..MaxItems)) \cup ({CallPlain} \X (1..MaxOverlap))

IdleCall == [pc |-> "idle", items |-> <<>>, ix |-> 1, wgFetches |-> 0, wgCallbacks |-> 0,
             results |-> <<>>]
IdleTask == [pc |-> "unborn", ok |-> FALSE, data |-> <<>>]
IdleCb == [pc |-> "none", calls |-> <<>>]

NewManifestFetcher(maxConcurrent) ==
    [ceiling |-> maxConcurrent, limiter |-> 0,
     call |-> [k \in CallIds |-> IdleCall],
     task |-> [t \in TaskIds |-> IdleTask],
     cb |-> [t \in TaskIds |-> IdleCb]]

\* the fetcher in the models that call the cache directly
NoFetcher == NewManifestFetcher(0)

\* no such call in the models of the cache and the fetcher
NoLib == [pc |-> "none"]

IdleTh ==
    [pc |-> "idle", op |-> "none", url |-> <<>>, data |-> <<>>,
     fd |-> 0, off |-> 0, ferr |-> FALSE, werr |-> FALSE, fetched |-> FALSE,
     renamed |-> FALSE, snapSet |-> FALSE, snapExists |-> FALSE, snap |-> <<>>,
     retSet |-> FALSE, retOk |-> FALSE, retData |-> <<>>,
     entries |-> <<>>, qurl |-> <<>>]

---------------------------------------------------------------------------
(* The file system *)

Exists(p) == p \in DOMAIN fs
FileBytes(p) == inodes[fs[p]].data

\* the smallest unused inode id
AllocIno == CHOOSE i \in 1..(Cardinality(DOMAIN inodes) + 1) :
                /\ i \notin DOMAIN inodes
                /\ \A j \in 1..(i - 1) : j \in DOMAIN inodes

\* write(2) at an offset: a gap past the end of the file reads as zeros
WriteAt(data, off, bytes) ==
    IF Len(bytes) = 0 THEN data
    ELSE LET n == IF Len(data) > off + Len(bytes) THEN Len(data) ELSE off + Len(bytes)
         IN  [i \in 1..n |-> IF i > off /\ i <= off + Len(bytes) THEN bytes[i - off]
                             ELSE IF i <= Len(data) THEN data[i] ELSE 0]

\* an inode lives while a path or an open descriptor names it
Live(fs_, th_) == {fs_[p] : p \in DOMAIN fs_} \cup {th_[t].fd : t \in Threads}
Reap(inodes_, fs_, th_) == [i \in (DOMAIN inodes_) \cap Live(fs_, th_) |-> inodes_[i]]

WithPath(fs_, p, ino) == [q \in (DOMAIN fs_) \cup {p} |-> IF q = p THEN ino ELSE fs_[q]]
WithoutPath(fs_, p) == [q \in (DOMAIN fs_) \ {p} |-> fs_[q]]

RECURSIVE LexLess(_, _)
LexLess(a, b) ==
    IF Len(a) = 0 THEN Len(b) > 0
    ELSE IF Len(b) = 0 THEN FALSE
    ELSE IF a[1] # b[1] THEN a[1] < b[1]
    ELSE LexLess(Tail(a), Tail(b))

\* how many names of S come before p
RankIn(S, p) == Cardinality({q \in S : LexLess(q, p)})

RECURSIVE SortedPaths(_)
\* os.ReadDir: the entries sorted by file name (split at the middle name)
SortedPaths(S) ==
    IF S = {} THEN <<>>
    ELSE LET m == CHOOSE p \in S : RankIn(S, p) = Cardinality(S) \div 2
         IN  SortedPaths({q \in S : LexLess(q, m)}) \o <<m>> \o SortedPaths({q \in S : LexLess(m, q)})

---------------------------------------------------------------------------
(* Steps shared by the goroutines *)

Running == panicked = NoPanic

Set(t, r) == th' = [th EXCEPT ![t] = r]

\* the call of t returns (data, nil) or (nil, err)
Returned(r, ok, data) ==
    [r EXCEPT !.pc = "done", !.retSet = TRUE, !.retOk = ok, !.retData = data]

\* where a goroutine goes once queueRefresh has returned
AfterQueue(r) ==
    IF r.op = "RefreshAllStale" THEN [r EXCEPT !.pc = "rnext"]
    ELSE Returned(r, TRUE, r.data)

\* where a goroutine goes once fetchAndCache has returned
AfterFetchAndCache(t, r) ==
    IF t = Worker THEN [r EXCEPT !.pc = "unmark"]
    ELSE IF r.ferr THEN Returned(r, FALSE, <<>>)
    ELSE Returned(r, TRUE, r.data)

\* a fetch whose failure is stored like an answer
FetchFromNetworkStoresFailure(t) ==
    /\ Running
    /\ UNCHANGED nonCacheVars
    /\ th[t].pc = "fetch"
    /\ \/ \E p \in Served(th[t].url) :
            Set(t, [th[t] EXCEPT !.data = p, !.ferr = FALSE, !.fetched = TRUE, !.pc = "create"])
       \/ Set(t, [th[t] EXCEPT !.data = <<>>, !.ferr = TRUE, !.fetched = TRUE, !.pc = "create"])
    /\ UNCHANGED <<fs, inodes, refreshQueue, refreshing, closed, panicked, opsLeft, elapsesLeft>>

\* fetchFromNetwork: the server's answer, or a failure
FetchFromNetwork(t) ==
    /\ Running
    /\ UNCHANGED nonCacheVars
    /\ th[t].pc = "fetch"
    /\ \/ \E p \in Served(th[t].url) :
            Set(t, [th[t] EXCEPT !.data = p, !.ferr = FALSE, !.fetched = TRUE, !.pc = "create"])
       \/ Set(t, AfterFetchAndCache(t, [th[t] EXCEPT !.ferr = TRUE, !.fetched = TRUE]))
    /\ UNCHANGED <<fs, inodes, refreshQueue, refreshing, closed, panicked, opsLeft, elapsesLeft>>

TmpPath(t) == urlToFilename(th[t].url) \o TmpSuffix

\* writeCache: os.Create(filename + ".tmp") creates the file or truncates it
CreateTmp(t) ==
    /\ Running
    /\ UNCHANGED nonCacheVars
    /\ th[t].pc = "create"
    /\ IF Exists(TmpPath(t))
       THEN /\ inodes' = [inodes EXCEPT ![fs[TmpPath(t)]] = [data |-> <<>>, stale |-> FALSE]]
            /\ fs' = fs
            /\ Set(t, [th[t] EXCEPT !.fd = fs[TmpPath(t)], !.off = 0, !.pc = "whdr"])
       ELSE /\ inodes' = [i \in (DOMAIN inodes) \cup {AllocIno} |->
                            IF i = AllocIno THEN [data |-> <<>>, stale |-> FALSE] ELSE inodes[i]]
            /\ fs' = WithPath(fs, TmpPath(t), AllocIno)
            /\ Set(t, [th[t] EXCEPT !.fd = AllocIno, !.off = 0, !.pc = "whdr"])
    /\ UNCHANGED <<refreshQueue, refreshing, closed, panicked, opsLeft, elapsesLeft>>

\* one f.Write at the descriptor's offset
WriteFd(t, bytes, nextpc) ==
    /\ inodes' = [inodes EXCEPT ![th[t].fd] =
                     [data |-> WriteAt(inodes[th[t].fd].data, th[t].off, bytes), stale |-> FALSE]]
    /\ Set(t, [th[t] EXCEPT !.off = th[t].off + Len(bytes), !.pc = nextpc])
    /\ UNCHANGED <<fs, refreshQueue, refreshing, closed, panicked, opsLeft, elapsesLeft>>

\* writeCache: binary.Write of the header
WriteHeader(t) ==
    /\ Running
    /\ UNCHANGED nonCacheVars
    /\ th[t].pc = "whdr"
    /\ WriteFd(t, HeaderBytes(th[t].url, th[t].data), "wurl")

\* writeCache: f.Write(urlBytes)
WriteUrl(t) ==
    /\ Running
    /\ UNCHANGED nonCacheVars
    /\ th[t].pc = "wurl"
    /\ WriteFd(t, th[t].url, "wdata")

\* writeCache: f.Write(finalContent)
WriteContent(t) ==
    /\ Running
    /\ UNCHANGED nonCacheVars
    /\ th[t].pc = "wdata"
    /\ WriteFd(t, StoredForm(th[t].data).finalContent, "rename")

\* writeCache: f.Close and os.Rename(tmpFile, filename); fetchAndCache logs a failure
CloseAndRename(t) ==
    /\ Running
    /\ UNCHANGED nonCacheVars
    /\ th[t].pc = "rename"
    /\ LET r == [th[t] EXCEPT !.fd = 0, !.off = 0, !.werr = ~Exists(TmpPath(t)),
                               !.renamed = Exists(TmpPath(t))]
           done == IF th[t].op = "writeCache" THEN Returned(r, ~r.werr, <<>>)
                   ELSE AfterFetchAndCache(t, r)
           th2 == [th EXCEPT ![t] = done]
           fs2 == IF Exists(TmpPath(t))
                  THEN WithPath(WithoutPath(fs, TmpPath(t)), urlToFilename(th[t].url), fs[TmpPath(t)])
                  ELSE fs
       IN  /\ th' = th2
           /\ fs' = fs2
           /\ inodes' = Reap(inodes, fs2, th2)
    /\ UNCHANGED <<refreshQueue, refreshing, closed, panicked, opsLeft, elapsesLeft>>

\* a mark that is stored without looking at the one already there
MarkRefreshingAlways(c) ==
    /\ Running
    /\ UNCHANGED nonCacheVars
    /\ th[c].pc = "mark"
    /\ refreshing' = refreshing \cup {th[c].qurl}
    /\ Set(c, [th[c] EXCEPT !.pc = "send"])
    /\ UNCHANGED <<fs, inodes, refreshQueue, closed, panicked, opsLeft, elapsesLeft>>

\* queueRefresh: refreshing.LoadOrStore(urlStr, true)
MarkRefreshing(c) ==
    /\ Running
    /\ UNCHANGED nonCacheVars
    /\ th[c].pc = "mark"
    /\ IF th[c].qurl \in refreshing
       THEN /\ Set(c, AfterQueue(th[c]))
            /\ UNCHANGED refreshing
       ELSE /\ refreshing' = refreshing \cup {th[c].qurl}
            /\ Set(c, [th[c] EXCEPT !.pc = "send"])
    /\ UNCHANGED <<fs, inodes, refreshQueue, closed, panicked, opsLeft, elapsesLeft>>

\* a send that waits for room in the queue
SendRefreshBlocking(c) ==
    /\ Running
    /\ UNCHANGED nonCacheVars
    /\ th[c].pc = "send"
    /\ IF closed
       THEN /\ panicked' = "send on closed channel"
            /\ UNCHANGED <<refreshQueue, refreshing, th>>
       ELSE /\ UNCHANGED panicked
            /\ Len(refreshQueue) < RefreshQueueCap
            /\ Set(c, AfterQueue(th[c]))
            /\ refreshQueue' = Append(refreshQueue, th[c].qurl)
            /\ UNCHANGED refreshing
    /\ UNCHANGED <<fs, inodes, closed, opsLeft, elapsesLeft>>

\* queueRefresh: the select that sends on refreshQueue or gives up
SendRefresh(c) ==
    /\ Running
    /\ UNCHANGED nonCacheVars
    /\ th[c].pc = "send"
    /\ IF closed
       THEN /\ panicked' = "send on closed channel"
            /\ UNCHANGED <<refreshQueue, refreshing, th>>
       ELSE /\ UNCHANGED panicked
            /\ Set(c, AfterQueue(th[c]))
            /\ IF Len(refreshQueue) < RefreshQueueCap
               THEN /\ refreshQueue' = Append(refreshQueue, th[c].qurl)
                    /\ UNCHANGED refreshing
               ELSE /\ refreshing' = refreshing \ {th[c].qurl}
                    /\ UNCHANGED refreshQueue
    /\ UNCHANGED <<fs, inodes, closed, opsLeft, elapsesLeft>>

---------------------------------------------------------------------------
(* ManifestCache.Get *)

CanStart(c) == Running /\ opsLeft > 0 /\ th[c].pc \in {"idle", "done"}

StartGet(c, u) ==
    /\ CanStart(c)
    /\ UNCHANGED nonCacheVars
    /\ Set(c, [IdleTh EXCEPT !.pc = "read", !.op = "Get", !.url = u])
    /\ opsLeft' = opsLeft - 1
    /\ UNCHANGED <<fs, inodes, refreshQueue, refreshing, closed, panicked, elapsesLeft>>

\* readCache: open the file of the URL, check and decode it
ReadCache(c) ==
    /\ Running
    /\ UNCHANGED nonCacheVars
    /\ th[c].pc = "read"
    /\ LET p == urlToFilename(th[c].url)
           res == IF Exists(p) THEN readCacheBytes(FileBytes(p), th[c].url) ELSE Failed
           r == [th[c] EXCEPT !.snapSet = TRUE, !.snapExists = Exists(p),
                              !.snap = IF Exists(p) THEN FileBytes(p) ELSE <<>>]
       IN  IF th[c].op = "readCache" THEN Set(c, Returned(r, res.ok, res.data))
           ELSE IF res.ok THEN Set(c, [r EXCEPT !.data = res.data, !.pc = "stat"])
           ELSE Set(c, [r EXCEPT !.pc = "fetch"])
    /\ UNCHANGED <<fs, inodes, refreshQueue, refreshing, closed, panicked, opsLeft, elapsesLeft>>

\* a Get that refetches whatever it finds stale
StatAndReturnRefetch(c) ==
    /\ Running
    /\ UNCHANGED nonCacheVars
    /\ th[c].pc = "stat"
    /\ LET p == urlToFilename(th[c].url)
       IN  IF ~Exists(p)
           THEN /\ panicked' = "nil pointer dereference"
                /\ UNCHANGED th
           ELSE /\ UNCHANGED panicked
                /\ IF inodes[fs[p]].stale
                   THEN Set(c, [th[c] EXCEPT !.pc = "fetch"])
                   ELSE Set(c, Returned(th[c], TRUE, th[c].data))
    /\ UNCHANGED <<fs, inodes, refreshQueue, refreshing, closed, opsLeft, elapsesLeft>>

\* Get on a hit: os.Stat, the age test, and the return of the cached data
StatAndReturn(c) ==
    /\ Running
    /\ UNCHANGED nonCacheVars
    /\ th[c].pc = "stat"
    /\ LET p == urlToFilename(th[c].url)
       IN  IF ~Exists(p)
           THEN /\ panicked' = "nil pointer dereference"    \* info is nil
                /\ UNCHANGED th
           ELSE /\ UNCHANGED panicked
                /\ IF inodes[fs[p]].stale
                   THEN Set(c, [th[c] EXCEPT !.pc = "mark", !.qurl = th[c].url])
                   ELSE Set(c, Returned(th[c], TRUE, th[c].data))
    /\ UNCHANGED <<fs, inodes, refreshQueue, refreshing, closed, opsLeft, elapsesLeft>>

---------------------------------------------------------------------------
(* ManifestCache.Close *)

\* close(c.refreshQueue): closing a closed channel panics
Close(c) ==
    /\ CanStart(c)
    /\ UNCHANGED nonCacheVars
    /\ IF closed
       THEN /\ panicked' = "close of closed channel"
            /\ Set(c, [IdleTh EXCEPT !.op = "Close", !.pc = "close"])
            /\ UNCHANGED closed
       ELSE /\ closed' = TRUE
            /\ UNCHANGED panicked
            /\ Set(c, Returned([IdleTh EXCEPT !.op = "Close"], TRUE, <<>>))
    /\ opsLeft' = opsLeft - 1
    /\ UNCHANGED <<fs, inodes, refreshQueue, refreshing, elapsesLeft>>

---------------------------------------------------------------------------
(* ManifestCache.RefreshAllStale *)

\* os.ReadDir(c.cacheDir)
StartRefreshAllStale(c) ==
    /\ CanStart(c)
    /\ UNCHANGED nonCacheVars
    /\ Set(c, [IdleTh EXCEPT !.pc = "rnext", !.op = "RefreshAllStale",
                             !.entries = SortedPaths(DOMAIN fs)])
    /\ opsLeft' = opsLeft - 1
    /\ UNCHANGED <<fs, inodes, refreshQueue, refreshing, closed, panicked, elapsesLeft>>

\* one turn of the loop: entry.Info, the age test, readUrlFromCache
RefreshNextEntry(c) ==
    /\ Running
    /\ UNCHANGED nonCacheVars
    /\ th[c].pc = "rnext"
    /\ IF th[c].entries = <<>>
       THEN /\ Set(c, Returned(th[c], TRUE, <<>>))
            /\ UNCHANGED panicked
       ELSE LET e == Head(th[c].entries)
                r == [th[c] EXCEPT !.entries = Tail(th[c].entries)]
            IN  IF ~Exists(e)
                THEN /\ panicked' = "nil pointer dereference"    \* info is nil
                     /\ UNCHANGED th
                ELSE /\ UNCHANGED panicked
                     /\ IF /\ inodes[fs[e]].stale
                           /\ readUrlFromCacheBytes(FileBytes(e)).ok
                           /\ readUrlFromCacheBytes(FileBytes(e)).url # <<>>
                        THEN Set(c, [r EXCEPT !.pc = "mark",
                                              !.qurl = readUrlFromCacheBytes(FileBytes(e)).url])
                        ELSE Set(c, r)
    /\ UNCHANGED <<fs, inodes, refreshQueue, refreshing, closed, opsLeft, elapsesLeft>>

---------------------------------------------------------------------------
(* ManifestCache.Clear and ManifestCache.ClearStale *)

StartClear(c) ==
    /\ CanStart(c)
    /\ UNCHANGED nonCacheVars
    /\ Set(c, [IdleTh EXCEPT !.pc = "clear", !.op = "Clear"])
    /\ opsLeft' = opsLeft - 1
    /\ UNCHANGED <<fs, inodes, refreshQueue, refreshing, closed, panicked, elapsesLeft>>

\* os.RemoveAll(c.cacheDir): the files are unlinked one after the other until
\* the directory is found empty
ClearRemove(c) ==
    /\ Running
    /\ UNCHANGED nonCacheVars
    /\ th[c].pc = "clear"
    /\ IF DOMAIN fs = {}
       THEN /\ Set(c, Returned(th[c], TRUE, <<>>))
            /\ UNCHANGED <<fs, inodes>>
       ELSE \E p \in DOMAIN fs :
               /\ fs' = WithoutPath(fs, p)
               /\ inodes' = Reap(inodes, WithoutPath(fs, p), th)
               /\ UNCHANGED th
    /\ UNCHANGED <<refreshQueue, refreshing, closed, panicked, opsLeft, elapsesLeft>>

\* os.ReadDir(c.cacheDir)
StartClearStale(c) ==
    /\ CanStart(c)
    /\ UNCHANGED nonCacheVars
    /\ Set(c, [IdleTh EXCEPT !.pc = "cnext", !.op = "ClearStale",
                             !.entries = SortedPaths(DOMAIN fs)])
    /\ opsLeft' = opsLeft - 1
    /\ UNCHANGED <<fs, inodes, refreshQueue, refreshing, closed, panicked, elapsesLeft>>

\* one turn of the loop: entry.Info, the age test, os.Remove
ClearStaleNextEntry(c) ==
    /\ Running
    /\ UNCHANGED nonCacheVars
    /\ th[c].pc = "cnext"
    /\ IF th[c].entries = <<>>
       THEN /\ Set(c, Returned(th[c], TRUE, <<>>))
            /\ UNCHANGED <<fs, inodes, panicked>>
       ELSE LET e == Head(th[c].entries)
                r == [th[c] EXCEPT !.entries = Tail(th[c].entries)]
            IN  IF ~Exists(e)
                THEN /\ panicked' = "nil pointer dereference"    \* info is nil
                     /\ Set(c, [th[c] EXCEPT !.pc = "panic"])
                     /\ UNCHANGED <<fs, inodes>>
                ELSE /\ UNCHANGED panicked
                     /\ Set(c, r)
                     /\ IF inodes[fs[e]].stale
                        THEN /\ fs' = WithoutPath(fs, e)
                             /\ inodes' = Reap(inodes, WithoutPath(fs, e), [th EXCEPT ![c] = r])
                        ELSE UNCHANGED <<fs, inodes>>
    /\ UNCHANGED <<refreshQueue, refreshing, closed, opsLeft, elapsesLeft>>

---------------------------------------------------------------------------
(* ManifestCache.refreshWorker *)

\* for urlStr := range c.refreshQueue
WorkerReceive ==
    /\ Running
    /\ UNCHANGED nonCacheVars
    /\ th[Worker].pc = "wait"
    /\ IF refreshQueue # <<>>
       THEN /\ Set(Worker, [IdleTh EXCEPT !.pc = "fetch", !.op = "refresh",
                                          !.url = Head(refreshQueue)])
            /\ refreshQueue' = Tail(refreshQueue)
       ELSE /\ closed
            /\ Set(Worker, [IdleTh EXCEPT !.pc = "stopped", !.op = "refresh"])
            /\ UNCHANGED refreshQueue
    /\ UNCHANGED <<fs, inodes, refreshing, closed, panicked, opsLeft, elapsesLeft>>

\* a worker that goes for the next URL without the Delete
WorkerKeepsMark ==
    /\ Running
    /\ UNCHANGED nonCacheVars
    /\ th[Worker].pc = "unmark"
    /\ Set(Worker, [th[Worker] EXCEPT !.pc = "wait"])
    /\ UNCHANGED <<fs, inodes, refreshQueue, refreshing, closed, panicked, opsLeft, elapsesLeft>>

\* c.refreshing.Delete(urlStr), then the pause before the next URL
WorkerUnmark ==
    /\ Running
    /\ UNCHANGED nonCacheVars
    /\ th[Worker].pc = "unmark"
    /\ refreshing' = refreshing \ {th[Worker].url}
    /\ Set(Worker, [th[Worker] EXCEPT !.pc = "wait"])
    /\ UNCHANGED <<fs, inodes, refreshQueue, closed, panicked, opsLeft, elapsesLeft>>

---------------------------------------------------------------------------
(* The environment: time passing and damage to the files of the cache *)

\* a TTL's worth of time passes: every file of the directory is stale now
ElapseTTL ==
    /\ Running
    /\ UNCHANGED nonCacheVars
    /\ elapsesLeft > 0
    /\ \E i \in DOMAIN inodes : ~inodes[i].stale
    /\ inodes' = [i \in DOMAIN inodes |-> [inodes[i] EXCEPT !.stale = TRUE]]
    /\ elapsesLeft' = elapsesLeft - 1
    /\ UNCHANGED <<fs, refreshQueue, refreshing, closed, panicked, th, opsLeft>>

SetByte(f, i, b) == [f EXCEPT ![i] = b]

FlipMasks == {1, 2, 4, 8, 16, 32, 64, 128, 255}

\* the damaged forms of an entry: wrong magic, unsupported version, a changed
\* checksum byte, a changed URL-length byte, a cut inside the header or the URL
DamagedForms(f) ==
    {SetByte(f, 1, 88), SetByte(f, 2, 88), SetByte(f, 3, 0), SetByte(f, 3, 2)}
    \cup {SetByte(f, i, Xor8(f[i], m)) : i \in {5, 6, 7}, m \in FlipMasks}
    \cup {Take(f, k) : k \in {0, 3, HeaderSize - 1, HeaderSize, HeaderSize + 1, HeaderSize + HdrURLSize(f) - 1}}

---------------------------------------------------------------------------
(* The cache with its clients, its worker and its environment *)

\* the file a writeCache(urlStr, content) that ran alone leaves behind
EntryBytes(urlStr, content) ==
    HeaderBytes(urlStr, content) \o urlStr \o StoredForm(content).finalContent

InitThreads ==
    [t \in Threads |-> IF t = Worker THEN [IdleTh EXCEPT !.pc = "wait", !.op = "refresh"]
                        ELSE IdleTh]

\* a new process: nothing queued, nothing marked, the worker waiting
InitProcess ==
    /\ refreshQueue = <<>>
    /\ refreshing = {}
    /\ closed = FALSE
    /\ panicked = NoPanic
    /\ th = InitThreads
    /\ fetcher = NoFetcher
    /\ lib = NoLib

EmptyDir == fs = <<>> /\ inodes = <<>>

OneFile(p, bytes, s) ==
    /\ fs = [q \in {p} |-> 1]
    /\ inodes = [i \in {1} |-> [data |-> bytes, stale |-> s]]

\* a new process on a cache directory that is empty or holds one entry of an earlier run
Init ==
    /\ \/ EmptyDir
       \/ \E u \in URLS, s \in BOOLEAN : \E p \in Served(u) :
              OneFile(urlToFilename(u), EntryBytes(u, p), s)
    /\ InitProcess
    /\ opsLeft = MaxOps
    /\ elapsesLeft = MaxElapses

GetSteps ==
    \/ \E c \in Clients, u \in URLS : StartGet(c, u)
    \/ \E c \in Clients : ReadCache(c)
    \/ \E c \in Clients : StatAndReturn(c)
    \/ \E t \in Threads : FetchFromNetwork(t)
    \/ \E t \in Threads : CreateTmp(t)
    \/ \E t \in Threads : WriteHeader(t)
    \/ \E t \in Threads : WriteUrl(t)
    \/ \E t \in Threads : WriteContent(t)
    \/ \E t \in Threads : CloseAndRename(t)

RefreshSteps ==
    \/ \E c \in Clients : MarkRefreshing(c)
    \/ \E c \in Clients : SendRefresh(c)
    \/ WorkerReceive
    \/ WorkerUnmark

Next ==
    \/ GetSteps
    \/ RefreshSteps
    \/ \E c \in Clients : Close(c)
    \/ \E c \in Clients : StartRefreshAllStale(c)
    \/ \E c \in Clients : RefreshNextEntry(c)
    \/ ElapseTTL

Spec == Init /\ [][Next]_vars

---------------------------------------------------------------------------
(* Gets on a cache directory whose one entry may have been damaged *)

InitDamaged ==
    /\ \E u \in URLS, s \in BOOLEAN : \E p \in Served(u) :
          \E f \in {EntryBytes(u, p)} \cup DamagedForms(EntryBytes(u, p)) :
              OneFile(urlToFilename(u), f, s)
    /\ InitProcess
    /\ opsLeft = MaxDamagedOps
    /\ elapsesLeft = 0

NextDamaged == GetSteps \/ RefreshSteps

SpecDamaged == InitDamaged /\ [][NextDamaged]_vars

---------------------------------------------------------------------------
(* Gets while the cache directory is cleared *)

InitClear ==
    /\ \E u \in URLS, s \in BOOLEAN : \E p \in Served(u) :
           OneFile(urlToFilename(u), EntryBytes(u, p), s)
    /\ InitProcess
    /\ opsLeft = MaxClearOps
    /\ elapsesLeft = 0

NextClear ==
    \/ GetSteps
    \/ RefreshSteps
    \/ \E c \in Clients : StartClear(c)
    \/ \E c \in Clients : ClearRemove(c)
    \/ \E c \in Clients : StartClearStale(c)
    \/ \E c \in Clients : ClearStaleNextEntry(c)

SpecClear == InitClear /\ [][NextClear]_vars

---------------------------------------------------------------------------
(* Concurrent Gets on a cold cache *)

InitRace ==
    /\ EmptyDir
    /\ InitProcess
    /\ opsLeft = MaxRaceOps
    /\ elapsesLeft = 0

NextRace == GetSteps

SpecRace == InitRace /\ [][NextRace]_vars

---------------------------------------------------------------------------
(* Gets on a cache directory with one stale entry, the worker scheduled *)

InitStale ==
    /\ \E u \in URLS : \E p \in Served(u) : OneFile(urlToFilename(u), EntryBytes(u, p), TRUE)
    /\ InitProcess
    /\ opsLeft = MaxStaleOps
    /\ elapsesLeft = 0

\* the steps of the goroutine of refreshWorker
WorkerSteps ==
    \/ WorkerReceive
    \/ FetchFromNetwork(Worker)
    \/ CreateTmp(Worker)
    \/ WriteHeader(Worker)
    \/ WriteUrl(Worker)
    \/ WriteContent(Worker)
    \/ CloseAndRename(Worker)
    \/ WorkerUnmark

NextStale == GetSteps \/ RefreshSteps

\* WorkerSteps can be taken: the worker is inside fetchAndCache or at the
\* Delete, or it waits at a queue that has a URL or is closed
WorkerCanStep ==
    /\ Running
    /\ \/ th[Worker].pc \in {"fetch", "create", "whdr", "wurl", "wdata", "rename", "unmark"}
       \/ th[Worker].pc = "wait" /\ (refreshQueue # <<>> \/ closed)

\* the worker is a goroutine of its own and runs whenever it can: weak
\* fairness of WorkerSteps, its enabling condition written out
WorkerRuns == []<>(~WorkerCanStep) \/ []<><<WorkerSteps>>_vars

SpecStale == InitStale /\ [][NextStale]_vars /\ WorkerRuns

\* some goroutine is inside a call, or the worker has a URL to take
CacheCanStep ==
    \/ WorkerCanStep
    \/ /\ Running
       /\ \E c \in Clients : th[c].pc \in {"read", "stat", "mark", "send", "fetch", "create",
                                          "whdr", "wurl", "wdata", "rename"}

\* every goroutine that is inside a call runs: the steps that start no call
\* are taken as long as one of them can be
GoroutinesOfCacheRun == []<>(~CacheCanStep) \/ []<><<NextStale /\ opsLeft' = opsLeft>>_vars

SpecMarks == InitStale /\ [][NextStale]_vars /\ GoroutinesOfCacheRun

---------------------------------------------------------------------------
(* A cache directory with more stale entries than the refresh queue holds *)

\* "h://a/" followed by the three decimal digits of i
UrlNum(i) == <<104, 58, 47, 47, 97, 47>> \o <<48 + (i \div 100), 48 + ((i \div 10) % 10), 48 + (i % 10)>>

\* one entry more than the queue and the worker take together, and then some
QueueFiles == RefreshQueueCap + 1 + MaxOverflow

\* the URLs Get is called with: the first and the last of the directory
QueueGetUrls == {UrlNum(1), UrlNum(QueueFiles)}

\* one client walks the directory, once; the other calls Get
QueueFiller == "c1"
QueueGetter == "c2"

InitQueue ==
    /\ fs = [p \in {urlToFilename(UrlNum(i)) : i \in 1..QueueFiles} |->
                CHOOSE i \in 1..QueueFiles : urlToFilename(UrlNum(i)) = p]
    /\ inodes = [i \in 1..QueueFiles |->
                    [data |-> EntryBytes(UrlNum(i), CHOOSE d \in Served(UrlNum(i)) : TRUE),
                     stale |-> TRUE]]
    /\ InitProcess
    /\ opsLeft = MaxQueueOps
    /\ elapsesLeft = 0

\* the worker, slow: it comes for the next URL only when the queue is full
WorkerReceiveWhenFull ==
    /\ Len(refreshQueue) >= RefreshQueueCap
    /\ WorkerReceive

StartFill ==
    /\ th[QueueFiller].pc = "idle"
    /\ StartRefreshAllStale(QueueFiller)

NextQueue ==
    \/ StartFill
    \/ RefreshNextEntry(QueueFiller)
    \/ \E u \in QueueGetUrls : StartGet(QueueGetter, u)
    \/ \E c \in Clients : ReadCache(c)
    \/ \E c \in Clients : StatAndReturn(c)
    \/ \E c \in Clients : MarkRefreshing(c)
    \/ \E c \in Clients : SendRefresh(c)
    \/ WorkerReceiveWhenFull
    \/ FetchFromNetwork(Worker)
    \/ CreateTmp(Worker)
    \/ WriteHeader(Worker)
    \/ WriteUrl(Worker)
    \/ WriteContent(Worker)
    \/ CloseAndRename(Worker)
    \/ WorkerUnmark

SpecQueue == InitQueue /\ [][NextQueue]_vars

---------------------------------------------------------------------------
(* One writeCache followed by a readCache of the same URL *)

\* "h://a/b" followed by 300 times "a": a URL whose length needs both length bytes
UrlLong == UrlHab \o [i \in 1..300 |-> 97]

CodecUrls == URLS \cup {UrlLong}

\* payload lengths near 0 and on both sides of the compression threshold
CodecLens ==
    (0..MaxDelta) \cup ((compressionThreshold - MaxDelta)..(compressionThreshold + MaxDelta))

\* a payload gzip shrinks (one byte repeated) and one it cannot shrink
PayloadRun(n) == [i \in 1..n |-> 7]
PayloadMixed(n) == [i \in 1..n |-> 1 + (i % 2)]

CodecPayloads == {PayloadRun(n) : n \in CodecLens} \cup {PayloadMixed(n) : n \in CodecLens}

CodecClient == "c1"

StartWriteCache(u, p) ==
    /\ Running
    /\ UNCHANGED nonCacheVars
    /\ th[CodecClient].pc = "idle"
    /\ Set(CodecClient, [IdleTh EXCEPT !.pc = "create", !.op = "writeCache", !.url = u, !.data = p])
    /\ UNCHANGED <<fs, inodes, refreshQueue, refreshing, closed, panicked, opsLeft, elapsesLeft>>

StartReadCache ==
    /\ Running
    /\ UNCHANGED nonCacheVars
    /\ th[CodecClient].pc = "done"
    /\ th[CodecClient].op = "writeCache"
    /\ Set(CodecClient, [th[CodecClient] EXCEPT !.pc = "read", !.op = "readCache",
                                               !.retSet = FALSE, !.retOk = FALSE])
    /\ UNCHANGED <<fs, inodes, refreshQueue, refreshing, closed, panicked, opsLeft, elapsesLeft>>

InitCodec ==
    /\ EmptyDir
    /\ InitProcess
    /\ opsLeft = 0
    /\ elapsesLeft = 0

NextCodec ==
    \/ \E u \in CodecUrls, p \in CodecPayloads : StartWriteCache(u, p)
    \/ CreateTmp(CodecClient)
    \/ WriteHeader(CodecClient)
    \/ WriteUrl(CodecClient)
    \/ WriteContent(CodecClient)
    \/ CloseAndRename(CodecClient)
    \/ StartReadCache
    \/ ReadCache(CodecClient)

SpecCodec == InitCodec /\ [][NextCodec]_vars

---------------------------------------------------------------------------
(* writeCache and readCache of a URL as long as the header's field allows, or longer *)

\* the largest value of CacheHeader.URLSize
MaxUint16 == 65535

\* "h://a/b" followed by "a"s: a URL of n bytes
UrlOfLen(n) == UrlHab \o [i \in 1..(n - Len(UrlHab)) |-> 97]

\* lengths a little over that of "h://a/b", and 65535, 65536 and 65536 + 7
HeaderUrlLens ==
    (Len(UrlHab)..(Len(UrlHab) + MaxUrlPad))
        \cup {MaxUint16, MaxUint16 + 1, MaxUint16 + 1 + Len(UrlHab)}

HeaderPayloads == {PayloadRun(1), PayloadMixed(2)}

\* the URL of the call is kept by its length, the entry by its header
InitHeader ==
    /\ EmptyDir
    /\ refreshQueue = <<>>
    /\ refreshing = {}
    /\ closed = FALSE
    /\ panicked = NoPanic
    /\ th = InitThreads
    /\ opsLeft = 0
    /\ elapsesLeft = 0
    /\ fetcher = NoFetcher
    /\ \E n \in HeaderUrlLens, p \in HeaderPayloads :
           lib = [pc |-> "header", step |-> "start", urlLen |-> n, content |-> p,
                  header |-> <<>>, read |-> Failed]

\* writeCache(url, content), alone on the directory: the entry it leaves
CallWriteCache ==
    /\ lib.pc = "header"
    /\ lib.step = "start"
    /\ lib' = [lib EXCEPT !.step = "written",
                          !.header = Take(EntryBytes(UrlOfLen(lib.urlLen), lib.content), HeaderSize)]
    /\ UNCHANGED nonLibVars

\* readCache(url) on that entry
CallReadCache ==
    /\ lib.pc = "header"
    /\ lib.step = "written"
    /\ lib' = [lib EXCEPT !.step = "read",
                          !.read = readCacheBytes(EntryBytes(UrlOfLen(lib.urlLen), lib.content),
                                                  UrlOfLen(lib.urlLen))]
    /\ UNCHANGED nonLibVars

NextHeader == CallWriteCache \/ CallReadCache

SpecHeader == InitHeader /\ [][NextHeader]_vars

---------------------------------------------------------------------------
(* ManifestFetcher: FetchAllWithCb and FetchAll on one fetcher.            *)
(* Cache.Get is taken by its interface here: it is called, and it returns  *)
(* bytes or an error.                                                      *)

\* item lists of a FetchAllWithCb; Index is the caller's, not the loop's
ItemAt(i, u, hasCb) == [Url |-> u, Index |-> 2 * i, hasCb |-> hasCb]

ItemLists ==
    UNION {{[i \in 1..n |-> ItemAt(i, us[i], cbs[i])] :
                us \in {f \in [1..n -> URLS] : n > 0 => f[1] = UrlHab}, cbs \in [1..n -> BOOLEAN]} :
           n \in 0..MaxItems}

UrlLists ==
    UNION {{[i \in 1..n |-> ItemAt(i, us[i], FALSE)] : us \in [1..n -> URLS]} : n \in 0..MaxOverlap}

\* what a Get of u can return to the fetcher: [ok, data]
GetOutcomes(u) == {[ok |-> TRUE, data |-> <<u[1]>>], [ok |-> FALSE, data |-> <<>>]}

ItemOf(t) == fetcher.call[t[1]].items[t[2]]

\* results[item.Url] = ... on a Go map
MapPut(m, k, v) == [x \in (DOMAIN m) \cup {k} |-> IF x = k THEN v ELSE m[x]]

StartCall(k, items) ==
    /\ fetcher.call[k].pc = "idle"
    /\ fetcher' = [fetcher EXCEPT !.call[k].items = items,
                                  !.call[k].pc = IF Len(items) = 0 THEN "waitFetches" ELSE "loop"]
    /\ UNCHANGED nonFetchVars

FetchAllWithCb(items) == StartCall(CallWithCb, items)

FetchAll(urls) == StartCall(CallPlain, urls)

\* one round of the loop: wg.Add(1); go func
Spawn(k) ==
    /\ fetcher.call[k].pc = "loop"
    /\ fetcher' = [fetcher EXCEPT
           !.call[k].wgFetches = @ + 1,
           !.task[<<k, fetcher.call[k].ix>>].pc = "acquire",
           !.call[k].ix = @ + 1,
           !.call[k].pc = IF fetcher.call[k].ix = Len(fetcher.call[k].items)
                          THEN "waitFetches" ELSE "loop"]
    /\ UNCHANGED nonFetchVars

\* f.limiter <- struct{}{} without waiting for room
AcquireNoWait(t) ==
    /\ fetcher.task[t].pc = "acquire"
    /\ fetcher' = [fetcher EXCEPT !.limiter = @ + 1, !.task[t].pc = "get"]
    /\ UNCHANGED nonFetchVars

\* f.limiter <- struct{}{}
Acquire(t) ==
    /\ fetcher.task[t].pc = "acquire"
    /\ fetcher.limiter < fetcher.ceiling
    /\ fetcher' = [fetcher EXCEPT !.limiter = @ + 1, !.task[t].pc = "get"]
    /\ UNCHANGED nonFetchVars

\* f.Cache.Get(item.Url) is called
GetCall(t) ==
    /\ fetcher.task[t].pc = "get"
    /\ fetcher' = [fetcher EXCEPT !.task[t].pc = "getting"]
    /\ UNCHANGED nonFetchVars

\* and returns
GetReturn(t) ==
    /\ fetcher.task[t].pc = "getting"
    /\ \E r \in GetOutcomes(ItemOf(t).Url) :
           fetcher' = [fetcher EXCEPT !.task[t].pc = "record", !.task[t].ok = r.ok,
                                      !.task[t].data = r.data]
    /\ UNCHANGED nonFetchVars

\* mu.Lock(); results[item.Url] = ...; mu.Unlock(); then the callback's goroutine
Record(t) ==
    /\ fetcher.task[t].pc = "record"
    /\ fetcher' = [fetcher EXCEPT
           !.call[t[1]].results = MapPut(@, ItemOf(t).Url,
                                         [ok |-> fetcher.task[t].ok, data |-> fetcher.task[t].data]),
           !.call[t[1]].wgCallbacks = IF ItemOf(t).hasCb THEN @ + 1 ELSE @,
           !.cb[t].pc = IF ItemOf(t).hasCb THEN "spawned" ELSE @,
           !.task[t].pc = "release"]
    /\ UNCHANGED nonFetchVars

\* the deferred <-f.limiter
Release(t) ==
    /\ fetcher.task[t].pc = "release"
    /\ fetcher' = [fetcher EXCEPT !.limiter = @ - 1, !.task[t].pc = "wgdone"]
    /\ UNCHANGED nonFetchVars

\* the deferred wgFetches.Done()
FetchDone(t) ==
    /\ fetcher.task[t].pc = "wgdone"
    /\ fetcher' = [fetcher EXCEPT !.call[t[1]].wgFetches = @ - 1, !.task[t].pc = "exited"]
    /\ UNCHANGED nonFetchVars

\* a callback that is handed what the results map holds for its URL
CallbackRunFromResults(t) ==
    /\ fetcher.cb[t].pc = "spawned"
    /\ fetcher' = [fetcher EXCEPT
           !.cb[t].pc = "running",
           !.cb[t].calls = Append(@, [url |-> ItemOf(t).Url,
                                      ok |-> fetcher.call[t[1]].results[ItemOf(t).Url].ok,
                                      data |-> fetcher.call[t[1]].results[ItemOf(t).Url].data,
                                      index |-> ItemOf(t).Index])]
    /\ UNCHANGED nonFetchVars

\* item.Callback(url, data, err, index) is entered with the goroutine's arguments
CallbackRun(t) ==
    /\ fetcher.cb[t].pc = "spawned"
    /\ fetcher' = [fetcher EXCEPT
           !.cb[t].pc = "running",
           !.cb[t].calls = Append(@, [url |-> ItemOf(t).Url, ok |-> fetcher.task[t].ok,
                                      data |-> fetcher.task[t].data, index |-> ItemOf(t).Index])]
    /\ UNCHANGED nonFetchVars

\* the callback returns; wgCallbacks.Done()
CallbackReturn(t) ==
    /\ fetcher.cb[t].pc = "running"
    /\ fetcher' = [fetcher EXCEPT !.cb[t].pc = "returned", !.call[t[1]].wgCallbacks = @ - 1]
    /\ UNCHANGED nonFetchVars

\* wgFetches.Wait(), and FetchAll's return
WaitFetches(k) ==
    /\ fetcher.call[k].pc = "waitFetches"
    /\ fetcher.call[k].wgFetches = 0
    /\ fetcher' = [fetcher EXCEPT !.call[k].pc = IF k = CallWithCb THEN "waitCallbacks" ELSE "returned"]
    /\ UNCHANGED nonFetchVars

\* a return that does not wait for the callbacks
WaitCallbacksNoWait(k) ==
    /\ fetcher.call[k].pc = "waitCallbacks"
    /\ fetcher' = [fetcher EXCEPT !.call[k].pc = "returned"]
    /\ UNCHANGED nonFetchVars

\* wgCallbacks.Wait(), and FetchAllWithCb's return
WaitCallbacks(k) ==
    /\ fetcher.call[k].pc = "waitCallbacks"
    /\ fetcher.call[k].wgCallbacks = 0
    /\ fetcher' = [fetcher EXCEPT !.call[k].pc = "returned"]
    /\ UNCHANGED nonFetchVars

InitFetch ==
    /\ EmptyDir
    /\ refreshQueue = <<>>
    /\ refreshing = {}
    /\ closed = FALSE
    /\ panicked = NoPanic
    /\ th = InitThreads
    /\ opsLeft = 0
    /\ elapsesLeft = 0
    /\ \E n \in 0..MaxCeiling : fetcher = NewManifestFetcher(n)
    /\ lib = NoLib

NextFetch ==
    \/ \E items \in ItemLists : FetchAllWithCb(items)
    \/ \E urls \in UrlLists : FetchAll(urls)
    \/ \E k \in CallIds : Spawn(k)
    \/ \E t \in TaskIds : Acquire(t)
    \/ \E t \in TaskIds : GetCall(t)
    \/ \E t \in TaskIds : GetReturn(t)
    \/ \E t \in TaskIds : Record(t)
    \/ \E t \in TaskIds : Release(t)
    \/ \E t \in TaskIds : FetchDone(t)
    \/ \E t \in TaskIds : CallbackRun(t)
    \/ \E t \in TaskIds : CallbackReturn(t)
    \/ \E k \in CallIds : WaitFetches(k)
    \/ WaitCallbacks(CallWithCb)

SpecFetch == InitFetch /\ [][NextFetch]_vars

\* the steps of the goroutines of the two calls, once the calls are made
GoroutineSteps ==
    \/ \E k \in CallIds : Spawn(k)
    \/ \E t \in TaskIds : Acquire(t)
    \/ \E t \in TaskIds : GetCall(t)
    \/ \E t \in TaskIds : GetReturn(t)
    \/ \E t \in TaskIds : Record(t)
    \/ \E t \in TaskIds : Release(t)
    \/ \E t \in TaskIds : FetchDone(t)
    \/ \E t \in TaskIds : CallbackRun(t)
    \/ \E t \in TaskIds : CallbackReturn(t)
    \/ \E k \in CallIds : WaitFetches(k)
    \/ WaitCallbacks(CallWithCb)

\* the scheduler runs a goroutine that can step; every Get and every
\* callback returns
SpecFetchLive == InitFetch /\ [][NextFetch]_vars /\ WF_vars(GoroutineSteps)

---------------------------------------------------------------------------
(* package strings, as far as xmlcetypes.go uses it, on ASCII bytes *)

ChLBracket == 91
ChRBracket == 93
ChComma == 44

\* unicode.IsSpace on ASCII: '\t', '\n', '\v', '\f', '\r', ' '
IsSpace(b) == b \in {9, 10, 11, 12, 13, 32}

\* the members of a set of integers in ascending order
Ascending(S) == [k \in 1..Cardinality(S) |-> CHOOSE i \in S : Cardinality({j \in S : j < i}) = k - 1]

\* strings.TrimSpace
TrimSpace(s) ==
    LET keep == {i \in 1..Len(s) : ~IsSpace(s[i])}
    IN  IF keep = {} THEN <<>>
        ELSE SubSeq(s, CHOOSE i \in keep : \A j \in keep : i <= j,
                       CHOOSE i \in keep : \A j \in keep : i >= j)

\* strings.Fields: the maximal runs of bytes that are not white space
Fields(s) ==
    LET starts == Ascending({i \in 1..Len(s) : ~IsSpace(s[i]) /\ (i = 1 \/ IsSpace(s[i - 1]))})
        EndOf(i) == CHOOSE j \in i..Len(s) :
                        /\ \A k \in i..j : ~IsSpace(s[k])
                        /\ (j = Len(s) \/ IsSpace(s[j + 1]))
    IN  [k \in 1..Len(starts) |-> SubSeq(s, starts[k], EndOf(starts[k]))]

\* strings.Split(s, ","): what lies between the commas, empty pieces included
SplitComma(s) ==
    LET commas == Ascending({i \in 1..Len(s) : s[i] = ChComma})
        From(k) == IF k = 1 THEN 1 ELSE commas[k - 1] + 1
        To(k) == IF k = Len(commas) + 1 THEN Len(s) ELSE commas[k] - 1
    IN  [k \in 1..(Len(commas) + 1) |-> SubSeq(s, From(k), To(k))]

RECURSIVE Join(_, _)
\* strings.Join
Join(parts, sep) ==
    IF Len(parts) = 0 THEN <<>>
    ELSE IF Len(parts) = 1 THEN parts[1]
    ELSE parts[1] \o sep \o Join(Tail(parts), sep)

Contains(s, b) == \E i \in 1..Len(s) : s[i] = b

---------------------------------------------------------------------------
(* CapabilityRequirement: ParseCapabilities, Matches, String *)

\* one single-token group per field
SingletonGroups(fields) == [i \in 1..Len(fields) |-> <<fields[i]>>]

\* a legacy parse that puts all fields into one group
parseV1CapabilitiesOneGroup(capString) ==
    [Groups |-> IF Fields(capString) = <<>> THEN <<>> ELSE <<Fields(capString)>>, IsV2 |-> FALSE]

parseV1Capabilities(capString) ==
    [Groups |-> SingletonGroups(Fields(capString)), IsV2 |-> FALSE]

addPlainCapabilities(groups, text) == groups \o SingletonGroups(Fields(text))

\* the entries of a bracket pair: split on commas, trimmed, the empty ones dropped
Cleaned(text) ==
    SelectSeq([k \in 1..Len(SplitComma(text)) |-> TrimSpace(SplitComma(text)[k])],
              LAMBDA e : e # <<>>)

\* the parser's state before the first byte
ScanStart == [groups |-> <<>>, inBracket |-> FALSE, current |-> <<>>]

\* a turn of the loop that keeps the blanks it meets inside brackets
ScanByteKeepBlanks(st, ch) ==
    IF ch = ChLBracket
    THEN [groups |-> IF st.current # <<>> THEN addPlainCapabilities(st.groups, st.current)
                     ELSE st.groups,
          inBracket |-> TRUE,
          current |-> <<>>]
    ELSE IF ch = ChRBracket
    THEN IF st.inBracket
         THEN [groups |-> IF Cleaned(st.current) # <<>> THEN Append(st.groups, Cleaned(st.current))
                          ELSE st.groups,
               inBracket |-> FALSE,
               current |-> <<>>]
         ELSE [st EXCEPT !.inBracket = FALSE]
    ELSE IF ch \in {32, 9, 10, 13} /\ ~st.inBracket
    THEN [groups |-> IF st.current # <<>> THEN addPlainCapabilities(st.groups, st.current)
                     ELSE st.groups,
          inBracket |-> FALSE,
          current |-> <<>>]
    ELSE [st EXCEPT !.current = Append(@, ch)]

\* one turn of the loop of parseV2Capabilities on the byte ch
ScanByte(st, ch) ==
    IF ch = ChLBracket
    THEN [groups |-> IF st.current # <<>> THEN addPlainCapabilities(st.groups, st.current)
                     ELSE st.groups,
          inBracket |-> TRUE,
          current |-> <<>>]
    ELSE IF ch = ChRBracket
    THEN IF st.inBracket
         THEN [groups |-> IF Cleaned(st.current) # <<>> THEN Append(st.groups, Cleaned(st.current))
                          ELSE st.groups,
               inBracket |-> FALSE,
               current |-> <<>>]
         ELSE [st EXCEPT !.inBracket = FALSE]
    ELSE IF ch \in {32, 9, 10, 13}
    THEN IF ~st.inBracket
         THEN [groups |-> IF st.current # <<>> THEN addPlainCapabilities(st.groups, st.current)
                          ELSE st.groups,
               inBracket |-> FALSE,
               current |-> <<>>]
         ELSE st
    ELSE [st EXCEPT !.current = Append(@, ch)]

RECURSIVE ScanV2(_, _)
\* the parser's state after the bytes 1..n of capString
ScanV2(capString, n) ==
    IF n = 0 THEN ScanStart ELSE ScanByte(ScanV2(capString, n - 1), capString[n])

\* a bracketed parse that forgets what is pending at the end of input
parseV2CapabilitiesNoFlush(capString) ==
    [Groups |-> ScanV2(capString, Len(capString)).groups, IsV2 |-> TRUE]

parseV2Capabilities(capString) ==
    LET st == ScanV2(capString, Len(capString))
    IN  [Groups |-> IF st.current # <<>> THEN addPlainCapabilities(st.groups, st.current)
                    ELSE st.groups,
         IsV2 |-> TRUE]

ParseCapabilities(capString) ==
    LET trimmed == TrimSpace(capString)
    IN  IF trimmed = <<>> THEN [Groups |-> <<>>, IsV2 |-> FALSE]
        ELSE IF Contains(trimmed, ChLBracket) THEN parseV2Capabilities(trimmed)
        ELSE parseV1Capabilities(trimmed)

\* availableCaps[cap] on a Go map: false for a key that is not there
Available(availableCaps, cap) == cap \in DOMAIN availableCaps /\ availableCaps[cap]

RECURSIVE GroupMatched(_, _, _)
\* the inner loop of Matches from token i on
GroupMatched(group, availableCaps, i) ==
    IF i > Len(group) THEN FALSE
    ELSE IF Available(availableCaps, group[i]) THEN TRUE
    ELSE GroupMatched(group, availableCaps, i + 1)

RECURSIVE MatchesFrom(_, _, _)
\* the outer loop of Matches from group g on
MatchesFrom(groups, availableCaps, g) ==
    IF g > Len(groups) THEN TRUE
    ELSE IF ~GroupMatched(groups[g], availableCaps, 1) THEN FALSE
    ELSE MatchesFrom(groups, availableCaps, g + 1)

\* a match that is content with one satisfied group
MatchesAnyGroup(cr, availableCaps) ==
    \E g \in 1..Len(cr.Groups) : GroupMatched(cr.Groups[g], availableCaps, 1)

Matches(cr, availableCaps) == MatchesFrom(cr.Groups, availableCaps, 1)

\* "(no requirements)", " AND ", " OR "
NoRequirements == <<40, 110, 111, 32, 114, 101, 113, 117, 105, 114, 101, 109, 101, 110, 116, 115, 41>>
SepAnd == <<32, 65, 78, 68, 32>>
SepOr == <<32, 79, 82, 32>>

\* one group as String renders it
Part(group) == IF Len(group) = 1 THEN group[1] ELSE <<40>> \o Join(group, SepOr) \o <<41>>

\* a rendering that puts every group into parentheses
StringAllParens(cr) ==
    IF Len(cr.Groups) = 0 THEN NoRequirements
    ELSE Join([g \in 1..Len(cr.Groups) |-> <<40>> \o Join(cr.Groups[g], SepOr) \o <<41>>], SepAnd)

String(cr) ==
    IF Len(cr.Groups) = 0 THEN NoRequirements
    ELSE Join([g \in 1..Len(cr.Groups) |-> Part(cr.Groups[g])], SepAnd)

---------------------------------------------------------------------------
(* Calls of ParseCapabilities, Matches and String *)

\* the bytes of the capability strings: a, b, space, '\v', '[', ']', ','
CapAlphabet == {97, 98, 32, 11, ChLBracket, ChRBracket, ChComma}

CapStrings == UNION {[1..n -> CapAlphabet] : n \in 0..MaxCapLen}

\* the sets of available capabilities: maps from some of the tokens a, b to bool
CapTokens == {<<97>>, <<98>>}
AvailableMaps == UNION {[K -> BOOLEAN] : K \in SUBSET CapTokens}

\* requirements a caller builds itself; a group may be empty there
LiteralGroups == {<<>>, <<<<97>>>>, <<<<98>>>>, <<<<97>>, <<98>>>>}
LiteralRequirements ==
    UNION {{[Groups |-> gs, IsV2 |-> FALSE] : gs \in [1..n -> LiteralGroups]} : n \in 0..MaxLiteralGroups}

NoRequirement == [Groups |-> <<>>, IsV2 |-> FALSE]

IdleCaps ==
    [pc |-> "start", capString |-> <<>>, parsed |-> FALSE, req |-> NoRequirement,
     availableCaps |-> <<>>, matched |-> FALSE, text |-> <<>>]

InitCaps ==
    /\ EmptyDir
    /\ refreshQueue = <<>>
    /\ refreshing = {}
    /\ closed = FALSE
    /\ panicked = NoPanic
    /\ th = InitThreads
    /\ opsLeft = 0
    /\ elapsesLeft = 0
    /\ fetcher = NoFetcher
    /\ \/ \E s \in CapStrings : lib = [IdleCaps EXCEPT !.capString = s]
       \/ \E cr \in LiteralRequirements : lib = [IdleCaps EXCEPT !.pc = "have", !.req = cr]

CallParseCapabilities ==
    /\ lib.pc = "start"
    /\ lib' = [lib EXCEPT !.pc = "have", !.parsed = TRUE, !.req = ParseCapabilities(lib.capString)]
    /\ UNCHANGED nonLibVars

CallMatches(availableCaps) ==
    /\ lib.pc = "have"
    /\ lib' = [lib EXCEPT !.pc = "matched", !.availableCaps = availableCaps,
                          !.matched = Matches(lib.req, availableCaps)]
    /\ UNCHANGED nonLibVars

CallString ==
    /\ lib.pc = "have"
    /\ lib' = [lib EXCEPT !.pc = "rendered", !.text = String(lib.req)]
    /\ UNCHANGED nonLibVars

NextCaps ==
    \/ CallParseCapabilities
    \/ \E availableCaps \in AvailableMaps : CallMatches(availableCaps)
    \/ CallString

SpecCaps == InitCaps /\ [][NextCaps]_vars

---------------------------------------------------------------------------
(* ResolveDependencies over a dependencies manifest *)

Ids == 1..MaxIds
Vers == 1..MaxVers

\* the versions that the manifests name for a component: several for
\* component 2, one for the others
VersOf(id) == IF id = 2 THEN Vers ELSE {1}

\* a dependee of a version: the id of a library and the version required
Dependees == {d \in [ID : Ids, Commit : Vers] : d.Commit \in VersOf(d.ID)}

\* what GetDependencies can return for a pair (id, version): not found, or
\* the list of dependees recorded for that version
NotFound == [found |-> FALSE, deps |-> <<>>]
Lookups ==
    {NotFound} \cup {[found |-> TRUE, deps |-> d] : d \in UNION {[1..n -> Dependees] : n \in 0..MaxDeps}}

\* the key under which resolve marks a visit, were it the pair and not the id
VisitedKeyWithVersion(id, ver) == <<id, ver>>

\* the key of visited[id]
VisitedKey(id, ver) == id

\* the frame of a call resolve(id, ver) that has not yet run
Frame(id, ver) == [id |-> id, ver |-> ver, at |-> "enter", deps |-> <<>>, i |-> 0]

Pop(stack) == SubSeq(stack, 1, Len(stack) - 1)
Top(stack) == stack[Len(stack)]

\* before the call ResolveDependencies(mwDeps, libraryID, version); mwDeps
\* holds the part of the manifest that the call has looked up so far
IdleDeps(libraryID, version) ==
    [pc |-> "call", libraryID |-> libraryID, version |-> version, mwDeps |-> <<>>,
     visited |-> {}, allDeps |-> <<>>, stack |-> <<>>, result |-> <<>>]

InitDeps ==
    /\ EmptyDir
    /\ refreshQueue = <<>>
    /\ refreshing = {}
    /\ closed = FALSE
    /\ panicked = NoPanic
    /\ th = InitThreads
    /\ opsLeft = 0
    /\ elapsesLeft = 0
    /\ fetcher = NoFetcher
    /\ \E libraryID \in Ids : \E version \in VersOf(libraryID) : lib = IdleDeps(libraryID, version)

\* resolve(libraryID, version) is called
CallResolveDependencies ==
    /\ lib.pc = "call"
    /\ lib' = [lib EXCEPT !.pc = "resolve", !.stack = <<Frame(lib.libraryID, lib.version)>>]
    /\ UNCHANGED nonLibVars

\* resolve finds its id visited and returns
ResolveVisited ==
    /\ lib.pc = "resolve"
    /\ lib.stack # <<>>
    /\ Top(lib.stack).at = "enter"
    /\ VisitedKey(Top(lib.stack).id, Top(lib.stack).ver) \in lib.visited
    /\ lib' = [lib EXCEPT !.stack = Pop(@)]
    /\ UNCHANGED nonLibVars

\* a resolve that lists an id only when the manifest has a record for it
ResolveExpandFoundOnly(lookup) ==
    /\ lib.pc = "resolve"
    /\ lib.stack # <<>>
    /\ LET f == Top(lib.stack)
           pair == <<f.id, f.ver>>
       IN  /\ f.at = "enter"
           /\ VisitedKey(f.id, f.ver) \notin lib.visited
           /\ pair \in DOMAIN lib.mwDeps => lookup = lib.mwDeps[pair]
           /\ lib' = [lib EXCEPT
                  !.visited = @ \cup {VisitedKey(f.id, f.ver)},
                  !.allDeps = IF lookup.found THEN Append(@, f.id) ELSE @,
                  !.mwDeps = [q \in DOMAIN @ \cup {pair} |-> IF q = pair THEN lookup ELSE @[q]],
                  !.stack = IF lookup.found
                            THEN [@ EXCEPT ![Len(@)] = [f EXCEPT !.at = "loop", !.deps = lookup.deps, !.i = 1]]
                            ELSE Pop(@)]
    /\ UNCHANGED nonLibVars

\* resolve marks its id, appends it and looks its dependees up; the manifest
\* answers as it did before for the same pair
ResolveExpand(lookup) ==
    /\ lib.pc = "resolve"
    /\ lib.stack # <<>>
    /\ LET f == Top(lib.stack)
           pair == <<f.id, f.ver>>
       IN  /\ f.at = "enter"
           /\ VisitedKey(f.id, f.ver) \notin lib.visited
           /\ pair \in DOMAIN lib.mwDeps => lookup = lib.mwDeps[pair]
           /\ lib' = [lib EXCEPT
                  !.visited = @ \cup {VisitedKey(f.id, f.ver)},
                  !.allDeps = Append(@, f.id),
                  !.mwDeps = [q \in DOMAIN @ \cup {pair} |-> IF q = pair THEN lookup ELSE @[q]],
                  !.stack = IF lookup.found
                            THEN [@ EXCEPT ![Len(@)] = [f EXCEPT !.at = "loop", !.deps = lookup.deps, !.i = 1]]
                            ELSE Pop(@)]
    /\ UNCHANGED nonLibVars

\* the loop over the dependees calls resolve for the next one
ResolveNext ==
    /\ lib.pc = "resolve"
    /\ lib.stack # <<>>
    /\ LET f == Top(lib.stack)
       IN  /\ f.at = "loop"
           /\ f.i <= Len(f.deps)
           /\ lib' = [lib EXCEPT
                  !.stack = Append([@ EXCEPT ![Len(@)] = [f EXCEPT !.i = @ + 1]],
                                   Frame(f.deps[f.i].ID, f.deps[f.i].Commit))]
    /\ UNCHANGED nonLibVars

\* the loop over the dependees is over and resolve returns
ResolveLoopEnd ==
    /\ lib.pc = "resolve"
    /\ lib.stack # <<>>
    /\ Top(lib.stack).at = "loop"
    /\ Top(lib.stack).i > Len(Top(lib.stack).deps)
    /\ lib' = [lib EXCEPT !.stack = Pop(@)]
    /\ UNCHANGED nonLibVars

\* the outermost resolve has returned: return allDeps
ReturnAllDeps ==
    /\ lib.pc = "resolve"
    /\ lib.stack = <<>>
    /\ lib' = [lib EXCEPT !.pc = "returned", !.result = lib.allDeps]
    /\ UNCHANGED nonLibVars

NextDeps ==
    \/ CallResolveDependencies
    \/ ResolveVisited
    \/ \E lookup \in Lookups : ResolveExpand(lookup)
    \/ ResolveNext
    \/ ResolveLoopEnd
    \/ ReturnAllDeps

\* the calling goroutine runs until the call returns
SpecDeps == InitDeps /\ [][NextDeps]_vars /\ WF_vars(NextDeps)

---------------------------------------------------------------------------
(* BSPDependenciesManifest and its lazily built indexes *)

\* a nil map, and a map that was made
Nil == [nil |-> TRUE]
Made(f) == [nil |-> FALSE, at |-> f]

\* m[k] on a Go map that may be nil: the zero value for a key that is not there
MapGet(m, k, zero) == IF m.nil \/ k \notin DOMAIN m.at THEN zero ELSE m.at[k]

BspIds == 1..MaxBspIds
BSPDependees == [ID : BspIds, Commit : {1}]
BSPDependerVersions ==
    [Commit : Vers,
     Dependees : UNION {[1..n -> BSPDependees] : n \in 0..MaxBspDependees},
     DependeesMap : {Nil}]
BSPDependers ==
    [ID : BspIds,
     Versions : UNION {[1..n -> BSPDependerVersions] : n \in 0..MaxBspVersions},
     VersionsMap : {Nil}]

\* the keys that the elements of a list carry in field k
KeysOf(list, k) == {list[i][k] : i \in 1..Len(list)}

\* map[key] = element, for the elements of list in order: the last wins
LastWith(list, k, key) ==
    list[CHOOSE i \in 1..Len(list) :
             /\ list[i][k] = key
             /\ \A j \in (i + 1)..Len(list) : list[j][k] # key]

\* v.DependeesMap of CreateMaps
WithDependeesMap(v) ==
    [v EXCEPT !.DependeesMap =
        Made([id \in KeysOf(v.Dependees, "ID") |-> LastWith(v.Dependees, "ID", id)])]

\* depender.VersionsMap of CreateMaps, the versions holding their DependeesMap
WithVersionsMap(depender) ==
    LET versions == [i \in 1..Len(depender.Versions) |-> WithDependeesMap(depender.Versions[i])]
    IN  [depender EXCEPT
            !.Versions = versions,
            !.VersionsMap = Made([c \in KeysOf(versions, "Commit") |-> LastWith(versions, "Commit", c)])]

\* the ids of the dependees of all versions of a depender, in order
RECURSIVE DependeeIdsFrom(_, _)
DependeeIdsFrom(versions, n) ==
    IF n = 0 THEN <<>>
    ELSE DependeeIdsFrom(versions, n - 1)
         \o [i \in 1..Len(versions[n].Dependees) |-> versions[n].Dependees[i].ID]

\* m.LibraryMap[lib] of CreateMaps: the depender's id once for every dependee
\* with id lib of every version of every depender, in order
RECURSIVE UsersOf(_, _, _)
UsersOf(dependers, n, library) ==
    IF n = 0 THEN <<>>
    ELSE UsersOf(dependers, n - 1, library)
         \o [i \in 1..Len(SelectSeq(DependeeIdsFrom(dependers[n].Versions, Len(dependers[n].Versions)),
                                    LAMBDA id : id = library)) |-> dependers[n].ID]

\* all the dependees' ids of a list of dependers
LibrariesOf(dependers) ==
    UNION {{dependers[n].Versions[v].Dependees[i].ID : i \in 1..Len(dependers[n].Versions[v].Dependees)} :
               <<n, v>> \in {q \in (1..Len(dependers)) \X (1..MaxBspVersions + 1) :
                                 q[2] <= Len(dependers[q[1]].Versions)}}

\* a CreateMaps that builds whether or not the maps are there
CreateMapsAlways(m) ==
    LET dependers == [i \in 1..Len(m.Dependers) |-> WithVersionsMap(m.Dependers[i])]
    IN  [Dependers |-> dependers,
         DependersMap |-> Made([id \in KeysOf(dependers, "ID") |-> LastWith(dependers, "ID", id)]),
         LibraryMap |-> Made([l \in LibrariesOf(dependers) |-> UsersOf(dependers, Len(dependers), l)])]

\* the manifest after m.CreateMaps()
CreateMaps(m) ==
    IF m.DependersMap.nil
    THEN LET dependers == [i \in 1..Len(m.Dependers) |-> WithVersionsMap(m.Dependers[i])]
         IN  [Dependers |-> dependers,
              DependersMap |-> Made([id \in KeysOf(dependers, "ID") |-> LastWith(dependers, "ID", id)]),
              LibraryMap |-> Made([l \in LibrariesOf(dependers) |-> UsersOf(dependers, Len(dependers), l)])]
    ELSE m

\* a nil *BSPDepender, and the results of a GetDependencies that found nothing
NilDepender == [ID |-> 0, Versions |-> <<>>, VersionsMap |-> Nil]
NilVersion == [Commit |-> 0, Dependees |-> <<>>, DependeesMap |-> Nil]

\* the results of the queries on a manifest whose maps are built
GetDependencies(m, bspID, version) ==
    LET depender == MapGet(m.DependersMap, bspID, NilDepender)
        versionEntry == MapGet(depender.VersionsMap, version, NilVersion)
    IN  IF depender # NilDepender /\ versionEntry # NilVersion
        THEN [deps |-> versionEntry.Dependees, found |-> TRUE]
        ELSE [deps |-> <<>>, found |-> FALSE]

GetBSP(m, bspID) == MapGet(m.DependersMap, bspID, NilDepender)

FindBSPsUsingLibrary(m, libraryID) == MapGet(m.LibraryMap, libraryID, <<>>)

\* a manifest as xml.Unmarshal leaves it: the list, no map
Unmarshalled(dependers) == [Dependers |-> dependers, DependersMap |-> Nil, LibraryMap |-> Nil]

IdleBsp(dependers) ==
    [pc |-> "bsp", m |-> Unmarshalled(dependers), query |-> "none", result |-> <<>>, opsLeft |-> MaxBspOps]

InitBsp ==
    /\ EmptyDir
    /\ refreshQueue = <<>>
    /\ refreshing = {}
    /\ closed = FALSE
    /\ panicked = NoPanic
    /\ th = InitThreads
    /\ opsLeft = 0
    /\ elapsesLeft = 0
    /\ fetcher = NoFetcher
    /\ \E dependers \in UNION {[1..n -> BSPDependers] : n \in 0..MaxDependers} :
           lib = IdleBsp(dependers)

\* the state after a query: the maps are built if they were not there, and
\* the result is read from them
Queried(name, m, result) ==
    [lib EXCEPT !.m = m, !.query = name, !.result = result, !.opsLeft = @ - 1]

CallCreateMaps ==
    /\ lib.pc = "bsp"
    /\ lib.opsLeft > 0
    /\ lib' = Queried("CreateMaps", CreateMaps(lib.m), CreateMaps(lib.m).DependersMap)
    /\ UNCHANGED nonLibVars

CallGetDependencies(bspID, version) ==
    /\ lib.pc = "bsp"
    /\ lib.opsLeft > 0
    /\ lib' = Queried("GetDependencies", CreateMaps(lib.m),
                      GetDependencies(CreateMaps(lib.m), bspID, version))
    /\ UNCHANGED nonLibVars

CallGetBSP(bspID) ==
    /\ lib.pc = "bsp"
    /\ lib.opsLeft > 0
    /\ lib' = Queried("GetBSP", CreateMaps(lib.m), GetBSP(CreateMaps(lib.m), bspID))
    /\ UNCHANGED nonLibVars

CallFindBSPsUsingLibrary(libraryID) ==
    /\ lib.pc = "bsp"
    /\ lib.opsLeft > 0
    /\ lib' = Queried("FindBSPsUsingLibrary", CreateMaps(lib.m),
                      FindBSPsUsingLibrary(CreateMaps(lib.m), libraryID))
    /\ UNCHANGED nonLibVars

\* the owner appends a depender to the list
AppendDepender(depender) ==
    /\ lib.pc = "bsp"
    /\ lib.opsLeft > 0
    /\ Len(lib.m.Dependers) <= MaxDependers
    /\ lib' = [lib EXCEPT !.m.Dependers = Append(@, depender), !.query = "append", !.opsLeft = @ - 1]
    /\ UNCHANGED nonLibVars

\* the owner takes the first depender off the list
DropDepender ==
    /\ lib.pc = "bsp"
    /\ lib.opsLeft > 0
    /\ lib.m.Dependers # <<>>
    /\ lib' = [lib EXCEPT !.m.Dependers = Tail(@), !.query = "drop", !.opsLeft = @ - 1]
    /\ UNCHANGED nonLibVars

\* the owner discards the indexes: m.DependersMap = nil
DiscardMaps ==
    /\ lib.pc = "bsp"
    /\ lib.opsLeft > 0
    /\ ~lib.m.DependersMap.nil
    /\ lib' = [lib EXCEPT !.m.DependersMap = Nil, !.query = "discard", !.opsLeft = @ - 1]
    /\ UNCHANGED nonLibVars

NextBsp ==
    \/ CallCreateMaps
    \/ \E bspID \in BspIds : \E version \in Vers : CallGetDependencies(bspID, version)
    \/ \E bspID \in BspIds : CallGetBSP(bspID)
    \/ \E libraryID \in BspIds : CallFindBSPsUsingLibrary(libraryID)
    \/ \E depender \in BSPDependers : AppendDepender(depender)
    \/ DropDepender
    \/ DiscardMaps

SpecBsp == InitBsp /\ [][NextBsp]_vars

---------------------------------------------------------------------------
(* FindBSPsUsingLibrary on manifests whose dependers have several versions *)

FindDependers ==
    [ID : BspIds,
     Versions : UNION {[1..n -> BSPDependerVersions] : n \in 0..MaxFindVersions},
     VersionsMap : {Nil}]

InitFind ==
    /\ EmptyDir
    /\ refreshQueue = <<>>
    /\ refreshing = {}
    /\ closed = FALSE
    /\ panicked = NoPanic
    /\ th = InitThreads
    /\ opsLeft = 0
    /\ elapsesLeft = 0
    /\ fetcher = NoFetcher
    /\ \E dependers \in UNION {[1..n -> FindDependers] : n \in 0..MaxFindDependers} :
           lib = IdleBsp(dependers)

NextFind ==
    \/ CallCreateMaps
    \/ \E libraryID \in BspIds : CallFindBSPsUsingLibrary(libraryID)

SpecFind == InitFind /\ [][NextFind]_vars

---------------------------------------------------------------------------
(* SemanticVersion: ParseVersion and String *)

\* a version string is a sequence of one-character strings
Digits == <<"0", "1", "2", "3", "4", "5", "6", "7", "8", "9">>

IsDigit(c) == \E d \in 1..10 : Digits[d] = c

DigitValue(c) == (CHOOSE d \in 1..10 : Digits[d] = c) - 1

\* strings.ToUpper on the characters of the model
ToUpper(version) ==
    [i \in 1..Len(version) |->
        IF version[i] = "x" THEN "X" ELSE IF version[i] = "v" THEN "V" ELSE version[i]]

\* the length of the longest run of digits that starts at position i
RECURSIVE DigitRun(_, _)
DigitRun(str, i) ==
    IF i > Len(str) \/ ~IsDigit(str[i]) THEN 0 ELSE 1 + DigitRun(str, i + 1)

\* the length matched by (\d+|X) at position i, 0 for no match
NumberOrX(str, i) ==
    IF DigitRun(str, i) > 0 THEN DigitRun(str, i)
    ELSE IF i <= Len(str) /\ str[i] = "X" THEN 1
    ELSE 0

\* versionRegex tried at position i: (\d+)\.(\d+|X)(?:\.(\d+|X))?
MatchAt(str, i) ==
    LET a == DigitRun(str, i)
        dot == i + a
        b == NumberOrX(str, dot + 1)
        j == dot + 1 + b
        c == IF j <= Len(str) /\ str[j] = "." THEN NumberOrX(str, j + 1) ELSE 0
    IN  IF a > 0 /\ dot <= Len(str) /\ str[dot] = "." /\ b > 0
        THEN [ok |-> TRUE,
              loc |-> <<i, IF c > 0 THEN j + 1 + c ELSE j>>,
              groups |-> <<SubSeq(str, i, dot - 1),
                           SubSeq(str, dot + 1, j - 1),
                           IF c > 0 THEN SubSeq(str, j + 1, j + c) ELSE <<>>>>]
        ELSE [ok |-> FALSE, loc |-> <<0, 0>>, groups |-> <<>>]

\* the leftmost match of versionRegex; loc is the first position of the match
\* and the first position after it
FindStringSubmatch(str) ==
    IF \E i \in 1..Len(str) : MatchAt(str, i).ok
    THEN LET i == CHOOSE k \in 1..Len(str) :
                      MatchAt(str, k).ok /\ \A e \in 1..(k - 1) : ~MatchAt(str, e).ok
         IN  [nil |-> FALSE, loc |-> MatchAt(str, i).loc, groups |-> MatchAt(str, i).groups]
    ELSE Nil

RECURSIVE DigitsValue(_)
DigitsValue(str) ==
    IF str = <<>> THEN 0
    ELSE 10 * DigitsValue(SubSeq(str, 1, Len(str) - 1)) + DigitValue(str[Len(str)])

\* strconv.Atoi with its error dropped: 0 for the empty string
Atoi(str) ==
    IF str = <<>> THEN 0
    ELSE IF str[1] = "-" THEN 0 - DigitsValue(Tail(str))
    ELSE DigitsValue(str)

\* %d of fmt.Sprintf
RECURSIVE Itoa(_)
Itoa(n) ==
    IF n < 0 THEN <<"-">> \o Itoa(0 - n)
    ELSE IF n < 10 THEN <<Digits[n + 1]>>
    ELSE Itoa(n \div 10) \o <<Digits[(n % 10) + 1]>>

MinusOne == <<"-", "1">>

\* the loop over the minor and patch groups: a missing group appends "-1" to
\* the slice and stays empty itself, a group X becomes "-1"
FillMissing(groups) ==
    [i \in 1..3 |-> IF i > 1 /\ groups[i] = <<"X">> THEN MinusOne ELSE groups[i]]

ParseVersion(version) ==
    LET matches == FindStringSubmatch(ToUpper(version))
        filled == FillMissing(matches.groups)
        found == FindStringSubmatch(version)
    IN  IF matches.nil THEN [kind |-> "error"]
        ELSE IF found.nil THEN [kind |-> "panic"]
        ELSE [kind |-> "ok",
              Raw |-> version,
              Prefix |-> SubSeq(version, 1, found.loc[1] - 1),
              Major |-> Atoi(filled[1]),
              Minor |-> Atoi(filled[2]),
              Patch |-> Atoi(filled[3]),
              Suffix |-> SubSeq(version, found.loc[2], Len(version))]

SemanticVersionString(v) ==
    IF v.Minor = -1 /\ v.Patch = -1
    THEN v.Prefix \o Itoa(v.Major) \o <<".", "X">> \o v.Suffix
    ELSE IF v.Patch = -1
    THEN v.Prefix \o Itoa(v.Major) \o <<".">> \o Itoa(v.Minor) \o <<".", "X">> \o v.Suffix
    ELSE v.Prefix \o Itoa(v.Major) \o <<".">> \o Itoa(v.Minor) \o <<".">> \o Itoa(v.Patch) \o v.Suffix

VersionChars == {"1", "2", ".", "X", "x", "v"}

VersionStrings == UNION {[1..n -> VersionChars] : n \in 0..MaxVersionLen}

InitVersion ==
    /\ EmptyDir
    /\ refreshQueue = <<>>
    /\ refreshing = {}
    /\ closed = FALSE
    /\ panicked = NoPanic
    /\ th = InitThreads
    /\ opsLeft = 0
    /\ elapsesLeft = 0
    /\ fetcher = NoFetcher
    /\ \E version \in VersionStrings :
           lib = [pc |-> "version", version |-> version, step |-> "start",
                  parsed |-> [kind |-> "none"], printed |-> <<>>]

CallParseVersion ==
    /\ lib.pc = "version"
    /\ lib.step = "start"
    /\ lib' = [lib EXCEPT !.step = "parsed", !.parsed = ParseVersion(lib.version)]
    /\ UNCHANGED nonLibVars

CallSemanticVersionString ==
    /\ lib.pc = "version"
    /\ lib.step = "parsed"
    /\ lib.parsed.kind = "ok"
    /\ lib' = [lib EXCEPT !.step = "printed", !.printed = SemanticVersionString(lib.parsed)]
    /\ UNCHANGED nonLibVars

NextVersion == CallParseVersion \/ CallSemanticVersionString

SpecVersion == InitVersion /\ [][NextVersion]_vars

---------------------------------------------------------------------------
(* NewSuperManifestFromURL: the assembly of the tree of manifests *)

\* the URL of the i-th document of a kind
Uri(kind, i) == <<kind, i>>
NoUrl == <<>>

DepUrlsOfRoot == {Uri("dep", 1), Uri("dep", 2)}
CapUrlsOfRoot == {Uri("cap", 1)}
ItemIds == 1..MaxChildItems

\* the references of a root document: the i-th reference of a list names the
\* i-th child document of its kind
BoardManifests ==
    UNION {{l \in [1..n -> [URI : {Uri("board", i) : i \in 1..MaxBoardRefs},
                            DependencyURL : DepUrlsOfRoot \cup {NoUrl},
                            CapabilityURL : CapUrlsOfRoot \cup {NoUrl},
                            Boards : {Nil}]] :
               \A i \in 1..n : l[i].URI = Uri("board", i)} : n \in 0..MaxBoardRefs}
MiddlewareManifests ==
    UNION {{l \in [1..n -> [URI : {Uri("mw", i) : i \in 1..MaxMiddlewareRefs},
                            DependencyURL : {Uri("dep", 1), NoUrl},
                            Middlewares : {Nil}]] :
               \A i \in 1..n : l[i].URI = Uri("mw", i)} : n \in 0..MaxMiddlewareRefs}
AppManifests ==
    UNION {{l \in [1..n -> [URI : {Uri("app", i) : i \in 1..MaxAppRefs}, Apps : {Nil}]] :
               \A i \in 1..n : l[i].URI = Uri("app", i)} : n \in 0..MaxAppRefs}

\* what ReadSuperManifest makes of a root document
SuperManifests ==
    [BoardManifest : BoardManifests, AppManifest : AppManifests,
     MiddlewareManifest : MiddlewareManifests,
     boardsMap : {Nil}, appMap : {Nil}, middlewareMap : {Nil},
     dependenciesMap : {Nil}, bspCapabilitiesMap : {Nil}]

\* what a fetch and parse gives: an error, or the document, here the ids of
\* its items (boards, apps, middleware, dependers) and the URL it came from
Failed_(url) == [err |-> TRUE, url |-> url, ids |-> <<>>]
Parsed(url, ids) == [err |-> FALSE, url |-> url, ids |-> ids]
ChildIdLists == UNION {[1..n -> ItemIds] : n \in 0..MaxChildItems}

\* UnmarshalManifest: an error of the fetch or of the parse, or the document
UnmarshalManifest(outcome) == IF outcome.err THEN Nil ELSE Made(outcome)

\* a board or middleware item of a child document
Item(id, origin) ==
    [ID |-> id, Origin |-> origin, Dependencies |-> Nil, Capabilities |-> Nil]

\* the items of a fetched child document, Origin set by the callback
ItemsOf(doc, origin) == [i \in 1..Len(doc.ids) |-> Item(doc.ids[i], origin)]

\* the callback of the i-th board reference
BoardCallback(served, bm, i) ==
    LET boards == UnmarshalManifest(served[bm.URI])
    IN  IF boards.nil THEN bm
        ELSE [bm EXCEPT !.Boards = Made(ItemsOf(boards.at, <<"board", i>>))]

\* the callback of the i-th middleware reference
MiddlewareCallback(served, mwM, i) ==
    LET middleware == UnmarshalManifest(served[mwM.URI])
    IN  IF middleware.nil THEN mwM
        ELSE [mwM EXCEPT !.Middlewares = Made(ItemsOf(middleware.at, <<"mw", i>>))]

\* the callback of the i-th app reference
AppCallback(served, aM, i) ==
    LET app == UnmarshalManifest(served[aM.URI])
    IN  IF app.nil THEN aM ELSE [aM EXCEPT !.Apps = Made(app.at.ids)]

\* a map from URLs to references where every reference replaces the
\* earlier ones with its URL: the last of them stays
LastRef(refs, k, url) ==
    CHOOSE i \in 1..Len(refs) : refs[i][k] = url /\ \A j \in (i + 1)..Len(refs) : refs[j][k] # url

\* capUrls[mManifest.CapabilityURL] = mManifest over the board references
CapUrls(sm) ==
    [url \in KeysOf(sm.BoardManifest, "CapabilityURL") \ {NoUrl} |->
        <<"board", LastRef(sm.BoardManifest, "CapabilityURL", url)>>]

\* depUrls[mManifest.DependencyURL] = mManifest over the board references,
\* then over the middleware references
DepUrls(sm) ==
    [url \in (KeysOf(sm.BoardManifest, "DependencyURL") \cup KeysOf(sm.MiddlewareManifest, "DependencyURL"))
              \ {NoUrl} |->
        IF url \in KeysOf(sm.MiddlewareManifest, "DependencyURL")
        THEN <<"mw", LastRef(sm.MiddlewareManifest, "DependencyURL", url)>>
        ELSE <<"board", LastRef(sm.BoardManifest, "DependencyURL", url)>>]

\* a map like DepUrls that would hold every reference of a URL
DepUrlsFirstBoard(sm) ==
    [url \in (KeysOf(sm.BoardManifest, "DependencyURL") \cup KeysOf(sm.MiddlewareManifest, "DependencyURL"))
              \ {NoUrl} |->
        IF url \in KeysOf(sm.BoardManifest, "DependencyURL")
        THEN <<"board", CHOOSE i \in 1..Len(sm.BoardManifest) :
                            /\ sm.BoardManifest[i].DependencyURL = url
                            /\ \A j \in 1..(i - 1) : sm.BoardManifest[j].DependencyURL # url>>
        ELSE <<"mw", LastRef(sm.MiddlewareManifest, "DependencyURL", url)>>]

\* depMap and capMap after the callbacks: the documents that were fetched and parsed
FetchedMap(served, urls) ==
    Made([url \in {u \in urls : ~served[u].err} |-> served[url]])

\* the URLs handed to FetchAllWithCb
UrlsToFetch(sm) ==
    KeysOf(sm.BoardManifest, "URI") \cup KeysOf(sm.AppManifest, "URI")
    \cup KeysOf(sm.MiddlewareManifest, "URI") \cup DOMAIN DepUrls(sm) \cup DOMAIN CapUrls(sm)

\* depMap[depUrl].CreateMaps()[id]: the depender with that id of the
\* document, nil when it has none
DependerOf(dep, id) ==
    IF id \in {dep.ids[i] : i \in 1..Len(dep.ids)} THEN Made([ID |-> id, url |-> dep.url]) ELSE Nil

\* the second pass over depUrls reads through a nil pointer: the Boards or
\* Middlewares of the reference are nil, or the document is not in depMap
\* and the reference has an item
DependencyPassPanics(sm, depUrls, depMap) ==
    \E url \in DOMAIN depUrls :
        LET ref == IF depUrls[url][1] = "board" THEN sm.BoardManifest[depUrls[url][2]].Boards
                   ELSE sm.MiddlewareManifest[depUrls[url][2]].Middlewares
        IN  IF ref.nil THEN TRUE ELSE ref.at # <<>> /\ url \notin DOMAIN depMap.at

\* the second pass over capUrls reads through a nil pointer
CapabilityPassPanics(sm, capUrls) ==
    \E url \in DOMAIN capUrls : sm.BoardManifest[capUrls[url][2]].Boards.nil

\* the items of a reference with their Dependencies set from the document of url
WithDependencies(items, dep) ==
    Made([i \in 1..Len(items.at) |-> [items.at[i] EXCEPT !.Dependencies = DependerOf(dep, items.at[i].ID)]])

\* the items of a board reference with their Capabilities set
WithCapabilities(items, cap) ==
    Made([i \in 1..Len(items.at) |-> [items.at[i] EXCEPT !.Capabilities = cap]])

\* the tree after the second pass over depUrls, when it does not panic
DependencyPass(sm, depUrls, depMap) ==
    [sm EXCEPT
        !.BoardManifest = [i \in 1..Len(@) |->
            IF @[i].DependencyURL \in DOMAIN depUrls /\ depUrls[@[i].DependencyURL] = <<"board", i>>
               /\ @[i].Boards.at # <<>>
            THEN [@[i] EXCEPT !.Boards = WithDependencies(@, depMap.at[sm.BoardManifest[i].DependencyURL])]
            ELSE @[i]],
        !.MiddlewareManifest = [i \in 1..Len(@) |->
            IF @[i].DependencyURL \in DOMAIN depUrls /\ depUrls[@[i].DependencyURL] = <<"mw", i>>
               /\ @[i].Middlewares.at # <<>>
            THEN [@[i] EXCEPT !.Middlewares = WithDependencies(@, depMap.at[sm.MiddlewareManifest[i].DependencyURL])]
            ELSE @[i]]]

\* the tree after the second pass over capUrls, when it does not panic
CapabilityPass(sm, capUrls, capMap) ==
    [sm EXCEPT
        !.BoardManifest = [i \in 1..Len(@) |->
            IF @[i].CapabilityURL \in DOMAIN capUrls /\ capUrls[@[i].CapabilityURL] = <<"board", i>>
            THEN [@[i] EXCEPT !.Boards =
                     WithCapabilities(@, IF sm.BoardManifest[i].CapabilityURL \in DOMAIN capMap.at
                                         THEN Made(capMap.at[sm.BoardManifest[i].CapabilityURL])
                                         ELSE Nil)]
            ELSE @[i]]]

\* sm.clearMaps()
clearMaps(sm) ==
    [sm EXCEPT !.boardsMap = Made(<<>>), !.appMap = Made(<<>>), !.middlewareMap = Made(<<>>)]

\* the documents that the URLs serve: for every URL an error or a document
ServedDocs ==
    {f \in [{Uri("board", i) : i \in 1..MaxBoardRefs} \cup {Uri("mw", i) : i \in 1..MaxMiddlewareRefs}
            \cup {Uri("app", i) : i \in 1..MaxAppRefs} \cup DepUrlsOfRoot \cup CapUrlsOfRoot ->
                [err : BOOLEAN, url : {NoUrl}, ids : ChildIdLists]] :
        \A u \in DOMAIN f :
            /\ (f[u].err \/ u[1] \in {"app", "cap"}) => f[u].ids = <<>>
            /\ (~f[u].err /\ u[1] = "mw") => f[u].ids # <<>>}

\* before the call NewSuperManifestFromURL(urlStr): what the root URL gives
\* (an error of the fetch, an error of the parse, or a root document) and
\* what the other URLs serve; a URL that the root does not name serves nothing
IdleAssembly(root, served) ==
    [pc |-> "assemble", root |-> root,
     served |-> [u \in DOMAIN served |-> [served[u] EXCEPT !.url = u]],
     sm |-> Nil, depUrls |-> <<>>, capUrls |-> <<>>, depMap |-> Nil, capMap |-> Nil,
     issued |-> {}, ret |-> Nil, err |-> "none"]

RootOutcomes ==
    {[err |-> e, sm |-> Nil] : e \in {"fetch", "parse"}}
    \cup {[err |-> "none", sm |-> Made(sm)] : sm \in SuperManifests}

InitAssembly ==
    /\ EmptyDir
    /\ refreshQueue = <<>>
    /\ refreshing = {}
    /\ closed = FALSE
    /\ panicked = NoPanic
    /\ th = InitThreads
    /\ opsLeft = 0
    /\ elapsesLeft = 0
    /\ fetcher = NoFetcher
    /\ \E root \in RootOutcomes : \E served \in ServedDocs :
           /\ \A u \in DOMAIN served :
                  (root.err # "none" \/ u \notin UrlsToFetch(root.sm.at)) => served[u].err
           /\ lib = IdleAssembly(root, served)

\* a root failure that is only logged: the children of an empty tree are fetched
RootFailsLogged ==
    /\ lib.pc = "assemble"
    /\ lib.root.err # "none"
    /\ lib' = [lib EXCEPT !.pc = "returned", !.ret = Made(clearMaps(CHOOSE sm \in SuperManifests :
                                                          /\ sm.BoardManifest = <<>>
                                                          /\ sm.AppManifest = <<>>
                                                          /\ sm.MiddlewareManifest = <<>>))]
    /\ UNCHANGED nonLibVars

\* the root document cannot be fetched or parsed: return nil and the error
RootFails ==
    /\ lib.pc = "assemble"
    /\ lib.root.err # "none"
    /\ lib' = [lib EXCEPT !.pc = "returned", !.err = lib.root.err]
    /\ UNCHANGED nonLibVars

\* the root document is fetched and parsed; the references are collected
RootParsed ==
    /\ lib.pc = "assemble"
    /\ lib.root.err = "none"
    /\ lib' = [lib EXCEPT !.pc = "collected",
                          !.sm = Made(clearMaps(lib.root.sm.at)),
                          !.depUrls = DepUrls(lib.root.sm.at),
                          !.capUrls = CapUrls(lib.root.sm.at)]
    /\ UNCHANGED nonLibVars

\* urlFetcher.FetchAllWithCb(urls): every callback has run when it returns
FetchChildren ==
    /\ lib.pc = "collected"
    /\ lib' = [lib EXCEPT
           !.pc = "fetched",
           !.issued = UrlsToFetch(lib.sm.at),
           !.depMap = FetchedMap(lib.served, DOMAIN lib.depUrls),
           !.capMap = FetchedMap(lib.served, DOMAIN lib.capUrls),
           !.sm = Made([lib.sm.at EXCEPT
               !.BoardManifest = [i \in 1..Len(@) |-> BoardCallback(lib.served, @[i], i)],
               !.AppManifest = [i \in 1..Len(@) |-> AppCallback(lib.served, @[i], i)],
               !.MiddlewareManifest = [i \in 1..Len(@) |-> MiddlewareCallback(lib.served, @[i], i)],
               !.dependenciesMap = FetchedMap(lib.served, DOMAIN lib.depUrls),
               !.bspCapabilitiesMap = FetchedMap(lib.served, DOMAIN lib.capUrls)])]
    /\ UNCHANGED nonLibVars

\* the second pass reads through a nil pointer: the call panics
SecondPassPanics ==
    /\ lib.pc = "fetched"
    /\ \/ DependencyPassPanics(lib.sm.at, lib.depUrls, lib.depMap)
       \/ CapabilityPassPanics(lib.sm.at, lib.capUrls)
    /\ lib' = [lib EXCEPT !.pc = "panicked"]
    /\ UNCHANGED nonLibVars

\* the second pass sets Dependencies and Capabilities; return the tree
SecondPassReturns ==
    /\ lib.pc = "fetched"
    /\ ~DependencyPassPanics(lib.sm.at, lib.depUrls, lib.depMap)
    /\ ~CapabilityPassPanics(lib.sm.at, lib.capUrls)
    /\ lib' = [lib EXCEPT
           !.pc = "returned",
           !.sm = Made(CapabilityPass(DependencyPass(lib.sm.at, lib.depUrls, lib.depMap),
                                      lib.capUrls, lib.capMap)),
           !.ret = Made(CapabilityPass(DependencyPass(lib.sm.at, lib.depUrls, lib.depMap),
                                       lib.capUrls, lib.capMap))]
    /\ UNCHANGED nonLibVars

NextAssembly ==
    \/ RootFails
    \/ RootParsed
    \/ FetchChildren
    \/ SecondPassPanics
    \/ SecondPassReturns

SpecAssembly == InitAssembly /\ [][NextAssembly]_vars

---------------------------------------------------------------------------
(* SuperManifest: the lookups by id and AddSuperManifest *)

\* the items of the references of a list that have a document, in order;
\* field is Boards, Apps or Middlewares
RECURSIVE ItemsIn(_, _, _)
ItemsIn(refs, field, n) ==
    IF n = 0 THEN <<>>
    ELSE ItemsIn(refs, field, n - 1) \o (IF refs[n][field].nil THEN <<>> ELSE refs[n][field].at)

\* GetBoardsMap, GetAppsMap, GetMiddlewareMap: the map is kept when it is
\* there and has an entry, and else built from the list, the last item of
\* an id staying
LookupMap(map, refs, field) ==
    IF ~map.nil /\ map.at # <<>> THEN map
    ELSE LET items == ItemsIn(refs, field, Len(refs))
         IN  Made([id \in KeysOf(items, "ID") |-> LastWith(items, "ID", id)])

GetBoardsMap(sm) == [sm EXCEPT !.boardsMap = LookupMap(@, sm.BoardManifest, "Boards")]
GetAppsMap(sm) == [sm EXCEPT !.appMap = LookupMap(@, sm.AppManifest, "Apps")]
GetMiddlewareMap(sm) == [sm EXCEPT !.middlewareMap = LookupMap(@, sm.MiddlewareManifest, "Middlewares")]

\* (item, exists) of GetBoard, GetApp and GetMiddleware
Lookup(map, id) ==
    IF id \in DOMAIN map.at THEN [item |-> Made(map.at[id]), exists |-> TRUE]
    ELSE [item |-> Nil, exists |-> FALSE]

\* sm.dependenciesMap[k] = v for the entries of the other map
MergedMap(mine, others) ==
    Made([k \in DOMAIN mine.at \cup DOMAIN others.at |->
             IF k \in DOMAIN others.at THEN others.at[k] ELSE mine.at[k]])

\* an AddSuperManifest that leaves the lookup maps as they are
AddSuperManifestKeepMaps(sm, other) ==
    [sm EXCEPT
        !.BoardManifest = @ \o other.BoardManifest,
        !.AppManifest = @ \o other.AppManifest,
        !.MiddlewareManifest = @ \o other.MiddlewareManifest,
        !.dependenciesMap = MergedMap(@, other.dependenciesMap),
        !.bspCapabilitiesMap = MergedMap(@, other.bspCapabilitiesMap)]

AddSuperManifest(sm, other) ==
    clearMaps([sm EXCEPT
        !.BoardManifest = @ \o other.BoardManifest,
        !.AppManifest = @ \o other.AppManifest,
        !.MiddlewareManifest = @ \o other.MiddlewareManifest,
        !.dependenciesMap = MergedMap(@, other.dependenciesMap),
        !.bspCapabilitiesMap = MergedMap(@, other.bspCapabilitiesMap)])

\* an assembled tree t (1: the receiver, 2: the other): at most one reference
\* of each kind, to a document of one item with the id given (0: no
\* reference, -1: a board reference whose document failed); the tree may
\* hold one dependency and one capability document, under the URL aux
TreeOf(t, boards, apps, mws, aux) ==
    [BoardManifest |-> IF boards = 0 THEN <<>>
                       ELSE <<[URI |-> Uri("board", t), DependencyURL |-> NoUrl, CapabilityURL |-> NoUrl,
                               Boards |-> IF boards = -1 THEN Nil
                                          ELSE Made(<<Item(boards, Uri("board", t))>>)]>>,
     AppManifest |-> IF apps = 0 THEN <<>>
                     ELSE <<[URI |-> Uri("app", t), Apps |-> Made(<<Item(apps, Uri("app", t))>>)]>>,
     MiddlewareManifest |-> IF mws = 0 THEN <<>>
                            ELSE <<[URI |-> Uri("mw", t), DependencyURL |-> NoUrl,
                                    Middlewares |-> Made(<<Item(mws, Uri("mw", t))>>)]>>,
     boardsMap |-> Made(<<>>), appMap |-> Made(<<>>), middlewareMap |-> Made(<<>>),
     dependenciesMap |-> IF aux = 0 THEN Made(<<>>)
                         ELSE Made([u \in {Uri("dep", aux)} |-> Parsed(<<u, t>>, <<>>)]),
     bspCapabilitiesMap |-> IF aux = 0 THEN Made(<<>>)
                            ELSE Made([u \in {Uri("cap", aux)} |-> Parsed(<<u, t>>, <<>>)])]

MergeIds == 1..2

IdleMerge(sm, other) ==
    [pc |-> "merge", sm |-> sm, before |-> sm, other |-> other, merged |-> FALSE,
     query |-> "none", id |-> 0, result |-> Lookup(Made(<<>>), 0), opsLeft |-> MaxMergeOps]

InitMerge ==
    /\ EmptyDir
    /\ refreshQueue = <<>>
    /\ refreshing = {}
    /\ closed = FALSE
    /\ panicked = NoPanic
    /\ th = InitThreads
    /\ opsLeft = 0
    /\ elapsesLeft = 0
    /\ fetcher = NoFetcher
    /\ \E boards \in {0, -1, 1} : \E apps, mws \in {0, 1} : \E aux \in 0..1 :
       \E boards2 \in {0, -1} \cup MergeIds : \E apps2, mws2 \in {0, 2} : \E aux2 \in 0..2 :
           lib = IdleMerge(TreeOf(1, boards, apps, mws, aux), TreeOf(2, boards2, apps2, mws2, aux2))

CallGetBoard(boardID) ==
    /\ lib.pc = "merge"
    /\ lib.opsLeft > 0
    /\ lib' = [lib EXCEPT !.sm = GetBoardsMap(@), !.query = "GetBoard", !.id = boardID,
                          !.result = Lookup(GetBoardsMap(lib.sm).boardsMap, boardID),
                          !.opsLeft = @ - 1]
    /\ UNCHANGED nonLibVars

CallGetApp(appID) ==
    /\ lib.pc = "merge"
    /\ lib.opsLeft > 0
    /\ lib' = [lib EXCEPT !.sm = GetAppsMap(@), !.query = "GetApp", !.id = appID,
                          !.result = Lookup(GetAppsMap(lib.sm).appMap, appID),
                          !.opsLeft = @ - 1]
    /\ UNCHANGED nonLibVars

CallGetMiddleware(middlewareID) ==
    /\ lib.pc = "merge"
    /\ lib.opsLeft > 0
    /\ lib' = [lib EXCEPT !.sm = GetMiddlewareMap(@), !.query = "GetMiddleware", !.id = middlewareID,
                          !.result = Lookup(GetMiddlewareMap(lib.sm).middlewareMap, middlewareID),
                          !.opsLeft = @ - 1]
    /\ UNCHANGED nonLibVars

CallAddSuperManifest ==
    /\ lib.pc = "merge"
    /\ ~lib.merged
    /\ lib' = [lib EXCEPT !.sm = AddSuperManifest(@, lib.other), !.merged = TRUE,
                          !.query = "AddSuperManifest"]
    /\ UNCHANGED nonLibVars

NextMerge ==
    \/ \E boardID \in MergeIds : CallGetBoard(boardID)
    \/ \E appID \in MergeIds : CallGetApp(appID)
    \/ \E middlewareID \in MergeIds : CallGetMiddleware(middlewareID)
    \/ CallAddSuperManifest

SpecMerge == InitMerge /\ [][NextMerge]_vars

---------------------------------------------------------------------------
(* SuperManifest: GetDependencies(urlStr) and GetDependenciesByID *)

\* the strings that the lookups tell apart: "", "N/A" and the name n
EmptyStr == [kind |-> "", n |-> 0]
NotAvailable == [kind |-> "N/A", n |-> 0]
Name(n) == [kind |-> "name", n |-> n]

\* sm.dependenciesMap[urlStr], nil for "" and "N/A"
GetDependenciesOfUrl(sm, urlStr) ==
    IF urlStr = EmptyStr \/ urlStr = NotAvailable THEN Nil
    ELSE MapGet(sm.dependenciesMap, urlStr, Nil)

\* GetBSP on the document that the pointer m refers to; CreateMaps reads
\* m.DependersMap first, which panics on a nil pointer
GetBSPOf(m, bspID) ==
    IF m.nil THEN [panics |-> TRUE, ret |-> Nil]
    ELSE LET depender == GetBSP(CreateMaps(m.at), bspID)
         IN  [panics |-> FALSE, ret |-> IF depender = NilDepender THEN Nil ELSE Made(depender)]

GetDependenciesByID(sm, urlStr, Id) ==
    IF Id = EmptyStr \/ Id = NotAvailable \/ urlStr = EmptyStr \/ urlStr = NotAvailable
    THEN [panics |-> FALSE, ret |-> Nil]
    ELSE LET depManifest == GetDependenciesOfUrl(sm, urlStr)
         IN  IF ~depManifest.nil THEN [panics |-> FALSE, ret |-> Nil]
             ELSE GetBSPOf(depManifest, Id.n)

\* the dependers ids of a document, none with a version
DependersOf(ids) == [i \in 1..Len(ids) |-> [ID |-> ids[i], Versions |-> <<>>, VersionsMap |-> Nil]]

\* the documents of a tree: none, or one under the URL named 1
LoadedDocuments ==
    {Made(<<>>)} \cup
    {Made([u \in {Name(1)} |-> Made(CreateMaps(Unmarshalled(DependersOf(ids))))]) :
         ids \in UNION {[1..n -> BspIds] : n \in 0..MaxBspIds}}

ByIdStrings == {EmptyStr, NotAvailable} \cup {Name(n) : n \in BspIds}

InitById ==
    /\ EmptyDir
    /\ refreshQueue = <<>>
    /\ refreshing = {}
    /\ closed = FALSE
    /\ panicked = NoPanic
    /\ th = InitThreads
    /\ opsLeft = 0
    /\ elapsesLeft = 0
    /\ fetcher = NoFetcher
    /\ \E docs \in LoadedDocuments :
           lib = [pc |-> "byid", sm |-> [dependenciesMap |-> docs], query |-> "none",
                  urlStr |-> EmptyStr, Id |-> EmptyStr, ret |-> Nil, opsLeft |-> MaxByIdOps]

CallGetDependenciesOfUrl(urlStr) ==
    /\ lib.pc = "byid"
    /\ lib.opsLeft > 0
    /\ lib' = [lib EXCEPT !.query = "GetDependencies", !.urlStr = urlStr, !.Id = EmptyStr,
                          !.ret = GetDependenciesOfUrl(lib.sm, urlStr), !.opsLeft = @ - 1]
    /\ UNCHANGED nonLibVars

CallGetDependenciesByID(urlStr, Id) ==
    /\ lib.pc = "byid"
    /\ lib.opsLeft > 0
    /\ lib' = [lib EXCEPT !.pc = IF GetDependenciesByID(lib.sm, urlStr, Id).panics THEN "panicked" ELSE @,
                          !.query = "GetDependenciesByID", !.urlStr = urlStr, !.Id = Id,
                          !.ret = GetDependenciesByID(lib.sm, urlStr, Id).ret, !.opsLeft = @ - 1]
    /\ UNCHANGED nonLibVars

NextById ==
    \/ \E urlStr \in ByIdStrings : CallGetDependenciesOfUrl(urlStr)
    \/ \E urlStr, Id \in ByIdStrings : CallGetDependenciesByID(urlStr, Id)

SpecById == InitById /\ [][NextById]_vars

---------------------------------------------------------------------------
(* Manifest: RemoveDependency, RemoveBoard, RemoveApp and ValidateManifest *)

\* the list without its last entry named name
RemoveLastNamed(list, name) ==
    IF \E i \in 1..Len(list) : list[i].Name = name
    THEN LET i == CHOOSE k \in 1..Len(list) :
                      /\ list[k].Name = name
                      /\ \A j \in (k + 1)..Len(list) : list[j].Name # name
         IN  [list |-> SubSeq(list, 1, i - 1) \o SubSeq(list, i + 1, Len(list)), removed |-> TRUE]
    ELSE [list |-> list, removed |-> FALSE]

\* the loop of the three Remove functions: at the first entry named name,
\* append(list[:i], list[i+1:]...) and return true; false after the loop
RemoveNamed(list, name) ==
    IF \E i \in 1..Len(list) : list[i].Name = name
    THEN LET i == CHOOSE k \in 1..Len(list) :
                      /\ list[k].Name = name
                      /\ \A j \in 1..(k - 1) : list[j].Name # name
         IN  [list |-> SubSeq(list, 1, i - 1) \o SubSeq(list, i + 1, Len(list)), removed |-> TRUE]
    ELSE [list |-> list, removed |-> FALSE]

RemoveDependency(m, name) ==
    [m |-> [m EXCEPT !.Dependencies = RemoveNamed(@, name).list],
     ret |-> RemoveNamed(m.Dependencies, name).removed]
RemoveBoard(m, name) ==
    [m |-> [m EXCEPT !.Boards = RemoveNamed(@, name).list],
     ret |-> RemoveNamed(m.Boards, name).removed]
RemoveApp(m, name) ==
    [m |-> [m EXCEPT !.Apps = RemoveNamed(@, name).list],
     ret |-> RemoveNamed(m.Apps, name).removed]

ManifestError(what, list, i) == [what |-> what, list |-> list, index |-> i]

\* the errors of entry i without the test of the names seen before
EntryErrorsNoDuplicates(entries, i, list) ==
    (IF entries[i].Name = "" THEN <<ManifestError("empty name", list, i)>> ELSE <<>>)
    \o (IF list = "dependency" /\ entries[i].Version = ""
        THEN <<ManifestError("empty version", list, i)>> ELSE <<>>)

\* the errors that one round of a loop of ValidateManifest appends for entry
\* i: names[Name] is true when an earlier entry had the name
EntryErrors(entries, i, list) ==
    (IF entries[i].Name = "" THEN <<ManifestError("empty name", list, i)>>
     ELSE IF \E j \in 1..(i - 1) : entries[j].Name = entries[i].Name
          THEN <<ManifestError("duplicate name", list, i)>>
          ELSE <<>>)
    \o (IF list = "dependency" /\ entries[i].Version = ""
        THEN <<ManifestError("empty version", list, i)>> ELSE <<>>)

RECURSIVE ListErrors(_, _, _)
ListErrors(entries, n, list) ==
    IF n = 0 THEN <<>> ELSE ListErrors(entries, n - 1, list) \o EntryErrors(entries, n, list)

ValidateManifest(m) ==
    (IF m.Name = "" THEN <<ManifestError("name is required", "manifest", 0)>> ELSE <<>>)
    \o (IF m.Version = "" THEN <<ManifestError("version is required", "manifest", 0)>> ELSE <<>>)
    \o ListErrors(m.Dependencies, Len(m.Dependencies), "dependency")
    \o ListErrors(m.Boards, Len(m.Boards), "board")
    \o ListErrors(m.Apps, Len(m.Apps), "app")

ManifestNames == {"", "a", "b"}
EntryNames == {"", "a"}
ManifestVersions == {"", "1"}

\* lists of up to max entries; URI, Description and Path tell the entries of
\* one name apart
DependencyLists ==
    UNION {{[i \in 1..n |-> [Name |-> f[i][1], Version |-> f[i][2], URI |-> i]] :
                f \in [1..n -> EntryNames \X ManifestVersions]} : n \in 0..MaxDependencies}
BoardLists ==
    UNION {{[i \in 1..n |-> [Name |-> f[i], Description |-> i]] : f \in [1..n -> EntryNames]} :
               n \in 0..MaxBoards}
AppLists ==
    UNION {{[i \in 1..n |-> [Name |-> f[i], Path |-> i]] : f \in [1..n -> EntryNames]} :
               n \in 0..MaxApps}

InitManifest ==
    /\ EmptyDir
    /\ refreshQueue = <<>>
    /\ refreshing = {}
    /\ closed = FALSE
    /\ panicked = NoPanic
    /\ th = InitThreads
    /\ opsLeft = 0
    /\ elapsesLeft = 0
    /\ fetcher = NoFetcher
    /\ \E name \in {"", "m"} : \E version \in ManifestVersions :
       \E deps \in DependencyLists : \E boards \in BoardLists : \E apps \in AppLists :
           lib = [pc |-> "manifest",
                  m |-> [Name |-> name, Version |-> version, Dependencies |-> deps,
                         Boards |-> boards, Apps |-> apps],
                  before |-> <<>>, op |-> "none", name |-> "", ret |-> FALSE, errors |-> <<>>,
                  opsLeft |-> MaxManifestOps]

CallRemoveDependency(name) ==
    /\ lib.pc = "manifest"
    /\ lib.opsLeft > 0
    /\ lib' = [lib EXCEPT !.m = RemoveDependency(lib.m, name).m, !.before = lib.m.Dependencies,
                          !.op = "RemoveDependency", !.name = name,
                          !.ret = RemoveDependency(lib.m, name).ret, !.opsLeft = @ - 1]
    /\ UNCHANGED nonLibVars

CallRemoveBoard(name) ==
    /\ lib.pc = "manifest"
    /\ lib.opsLeft > 0
    /\ lib' = [lib EXCEPT !.m = RemoveBoard(lib.m, name).m, !.before = lib.m.Boards,
                          !.op = "RemoveBoard", !.name = name,
                          !.ret = RemoveBoard(lib.m, name).ret, !.opsLeft = @ - 1]
    /\ UNCHANGED nonLibVars

CallRemoveApp(name) ==
    /\ lib.pc = "manifest"
    /\ lib.opsLeft > 0
    /\ lib' = [lib EXCEPT !.m = RemoveApp(lib.m, name).m, !.before = lib.m.Apps,
                          !.op = "RemoveApp", !.name = name,
                          !.ret = RemoveApp(lib.m, name).ret, !.opsLeft = @ - 1]
    /\ UNCHANGED nonLibVars

CallValidateManifest ==
    /\ lib.pc = "manifest"
    /\ lib.opsLeft > 0
    /\ lib' = [lib EXCEPT !.op = "ValidateManifest", !.errors = ValidateManifest(lib.m),
                          !.opsLeft = @ - 1]
    /\ UNCHANGED nonLibVars

NextManifest ==
    \/ \E name \in ManifestNames : CallRemoveDependency(name)
    \/ \E name \in ManifestNames : CallRemoveBoard(name)
    \/ \E name \in ManifestNames : CallRemoveApp(name)
    \/ CallValidateManifest

SpecManifest == InitManifest /\ [][NextManifest]_vars

---------------------------------------------------------------------------
(* NewSuperManifestFromURL: the goroutines of the assembly.  The fetches    *)
(* and the callbacks run as in FetchAllWithCb; a callback's body is the     *)
(* closure that NewSuperManifestFromURL hands over with the item.           *)

\* the closures: they differ in what they write under the mutex
CallbackKinds == {"board", "app", "middleware", "dependencies", "capabilities"}

\* the callback goroutines of the one FetchAllWithCb of an assembly
TreeTasks == {CallWithCb} \X (1..MaxItems)

\* sync.Mutex mu, unlocked
Unlocked == <<>>

\* the lists of FetchUrlWithCb that the assembly builds: every item has a callback
TreeItemLists == {items \in ItemLists : \A i \in 1..Len(items) : items[i].hasCb}

IdleTree(kinds) ==
    [pc |-> "tree", kinds |-> kinds, main |-> "build", mu |-> Unlocked,
     cb |-> [t \in TreeTasks |-> "entry"],
     tree |-> [t \in TreeTasks |-> "nil"]]

InitTree ==
    /\ EmptyDir
    /\ refreshQueue = <<>>
    /\ refreshing = {}
    /\ closed = FALSE
    /\ panicked = NoPanic
    /\ th = InitThreads
    /\ opsLeft = 0
    /\ elapsesLeft = 0
    /\ \E n \in 1..MaxCeiling : fetcher = NewManifestFetcher(n)
    /\ \E kinds \in [1..MaxItems -> CallbackKinds] : lib = IdleTree(kinds)

\* urlFetcher.FetchAllWithCb(urls), called
TreeFetchAll(items) ==
    /\ lib.pc = "tree"
    /\ lib.main = "build"
    /\ fetcher.call[CallWithCb].pc = "idle"
    /\ fetcher' = [fetcher EXCEPT !.call[CallWithCb].items = items,
                                  !.call[CallWithCb].pc = IF Len(items) = 0 THEN "waitFetches" ELSE "loop"]
    /\ lib' = [lib EXCEPT !.main = "fetch"]
    /\ UNCHANGED cacheVars

\* the callback's UnmarshalManifest: an error is logged and the callback is
\* over, else it goes for the mutex
CallbackUnmarshal(t) ==
    /\ lib.pc = "tree"
    /\ fetcher.cb[t].pc = "running"
    /\ lib.cb[t] = "entry"
    /\ \E parsed \in (IF fetcher.task[t].ok THEN BOOLEAN ELSE {FALSE}) :
           lib' = [lib EXCEPT !.cb[t] = IF parsed THEN "lock" ELSE "end"]
    /\ UNCHANGED <<cacheVars, fetcher>>

\* a Lock that does not wait for the mutex
CallbackLockNoWait(t) ==
    /\ lib.pc = "tree"
    /\ lib.cb[t] = "lock"
    /\ lib' = [lib EXCEPT !.mu = t, !.cb[t] = "splice"]
    /\ UNCHANGED <<cacheVars, fetcher>>

\* mu.Lock()
CallbackLock(t) ==
    /\ lib.pc = "tree"
    /\ lib.cb[t] = "lock"
    /\ lib.mu = Unlocked
    /\ lib' = [lib EXCEPT !.mu = t, !.cb[t] = "splice"]
    /\ UNCHANGED <<cacheVars, fetcher>>

\* the first write: the document into its reference, or into depMap or capMap
CallbackSplice(t) ==
    /\ lib.pc = "tree"
    /\ lib.cb[t] = "splice"
    /\ lib' = [lib EXCEPT !.tree[t] = "document",
                          !.cb[t] = IF lib.kinds[t[2]] \in {"board", "middleware"}
                                    THEN "origins" ELSE "unlock"]
    /\ UNCHANGED <<cacheVars, fetcher>>

\* the loop that sets Origin on the items of a board or middleware document
CallbackOrigins(t) ==
    /\ lib.pc = "tree"
    /\ lib.cb[t] = "origins"
    /\ lib' = [lib EXCEPT !.tree[t] = "document with origins", !.cb[t] = "unlock"]
    /\ UNCHANGED <<cacheVars, fetcher>>

\* mu.Unlock()
CallbackUnlock(t) ==
    /\ lib.pc = "tree"
    /\ lib.cb[t] = "unlock"
    /\ lib' = [lib EXCEPT !.mu = Unlocked, !.cb[t] = "end"]
    /\ UNCHANGED <<cacheVars, fetcher>>

\* the closure returns; wgCallbacks.Done()
TreeCallbackReturn(t) ==
    /\ lib.pc = "tree"
    /\ lib.cb[t] = "end"
    /\ CallbackReturn(t)

\* FetchAllWithCb has returned: the maps are stored and the second pass
\* reads the tree and attaches the dependency and capability data
SecondPass ==
    /\ lib.pc = "tree"
    /\ lib.main = "fetch"
    /\ fetcher.call[CallWithCb].pc = "returned"
    /\ lib' = [lib EXCEPT !.main = "second pass"]
    /\ UNCHANGED <<cacheVars, fetcher>>

\* return superManifest, err
TreeReturn ==
    /\ lib.pc = "tree"
    /\ lib.main = "second pass"
    /\ lib' = [lib EXCEPT !.main = "returned"]
    /\ UNCHANGED <<cacheVars, fetcher>>

NextTree ==
    \/ \E items \in TreeItemLists : TreeFetchAll(items)
    \/ Spawn(CallWithCb)
    \/ \E t \in TreeTasks : Acquire(t)
    \/ \E t \in TreeTasks : GetCall(t)
    \/ \E t \in TreeTasks : GetReturn(t)
    \/ \E t \in TreeTasks : Record(t)
    \/ \E t \in TreeTasks : Release(t)
    \/ \E t \in TreeTasks : FetchDone(t)
    \/ \E t \in TreeTasks : CallbackRun(t)
    \/ \E t \in TreeTasks : CallbackUnmarshal(t)
    \/ \E t \in TreeTasks : CallbackLock(t)
    \/ \E t \in TreeTasks : CallbackSplice(t)
    \/ \E t \in TreeTasks : CallbackOrigins(t)
    \/ \E t \in TreeTasks : CallbackUnlock(t)
    \/ \E t \in TreeTasks : TreeCallbackReturn(t)
    \/ WaitFetches(CallWithCb)
    \/ WaitCallbacks(CallWithCb)
    \/ SecondPass
    \/ TreeReturn

SpecTree == InitTree /\ [][NextTree]_vars

---------------------------------------------------------------------------
(* The cache of the command-line tool (package main), its calls one at a   *)
(* time                                                                     *)

\* encodeUrlToBytes: the magic 'M' 'C', the length in two bytes, the URL
encodeUrlToBytes(urlStr) ==
    <<ChM, ChC, (Len(urlStr) \div 256) % 256, Len(urlStr) % 256>> \o urlStr

\* decodeBytesToUrl: [ok, url, rest]
decodeBytesToUrl(data) ==
    IF Len(data) < 4 THEN [ok |-> FALSE, url |-> <<>>, rest |-> data]
    ELSE IF data[1] # ChM \/ data[2] # ChC THEN [ok |-> FALSE, url |-> <<>>, rest |-> data]
    ELSE LET count == data[3] * 256 + data[4]
         IN  IF Len(data) < 4 + count THEN [ok |-> FALSE, url |-> <<>>, rest |-> data]
             ELSE [ok |-> TRUE, url |-> SubSeq(data, 5, 4 + count), rest |-> Drop(data, 4 + count)]

\* the file of the cache directory at path p, nil when there is none
CmdFile(files, p) == IF p \in DOMAIN files THEN Made(files[p]) ELSE Nil

\* fetchAndCache after a fetch that answered content: os.WriteFile
CmdWritten(files, urlStr, content) ==
    [p \in (DOMAIN files) \cup {urlToFilename(urlStr)} |->
        IF p = urlToFilename(urlStr)
        THEN [data |-> encodeUrlToBytes(urlStr) \o content, stale |-> FALSE]
        ELSE files[p]]

\* queueRefresh on a queue that is open
CmdQueued(c, urlStr) ==
    IF urlStr \in c.refreshing THEN c
    ELSE IF Len(c.queue) < RefreshQueueCap
         THEN [c EXCEPT !.refreshing = @ \cup {urlStr}, !.queue = Append(@, urlStr)]
         ELSE c

\* Get of the command-line tool; answer is what the server would answer
CmdGet(c, urlStr, answer) ==
    LET f == CmdFile(c.files, urlToFilename(urlStr))
        dec == IF f.nil THEN decodeBytesToUrl(<<>>) ELSE decodeBytesToUrl(f.at.data)
    IN  IF ~f.nil /\ dec.ok
        THEN [c |-> IF f.at.stale THEN CmdQueued(c, urlStr) ELSE c,
              ok |-> TRUE, data |-> dec.rest, fetched |-> FALSE]
        ELSE IF answer.ok
             THEN [c |-> [c EXCEPT !.files = CmdWritten(@, urlStr, answer.data)],
                   ok |-> TRUE, data |-> answer.data, fetched |-> TRUE]
             ELSE [c |-> c, ok |-> FALSE, data |-> <<>>, fetched |-> TRUE]

\* what the server answers to a fetch of u, or that the fetch fails
CmdAnswers(u) == {[ok |-> TRUE, data |-> p] : p \in Served(u)} \cup {[ok |-> FALSE, data |-> <<>>]}

NewCmdCache == [files |-> <<>>, queue |-> <<>>, refreshing |-> {}]

InitCmd ==
    /\ EmptyDir
    /\ refreshQueue = <<>>
    /\ refreshing = {}
    /\ closed = FALSE
    /\ panicked = NoPanic
    /\ th = InitThreads
    /\ opsLeft = 0
    /\ elapsesLeft = 0
    /\ fetcher = NoFetcher
    /\ lib = [pc |-> "cmd", c |-> NewCmdCache, before |-> NewCmdCache.files, op |-> "none",
              url |-> <<>>, ok |-> FALSE, data |-> <<>>, fetched |-> FALSE, opsLeft |-> MaxCmdOps]

CallCmdGet(urlStr) ==
    /\ lib.pc = "cmd"
    /\ lib.opsLeft > 0
    /\ \E answer \in CmdAnswers(urlStr) :
           lib' = [lib EXCEPT !.c = CmdGet(lib.c, urlStr, answer).c, !.before = lib.c.files,
                              !.op = "Get", !.url = urlStr,
                              !.ok = CmdGet(lib.c, urlStr, answer).ok,
                              !.data = CmdGet(lib.c, urlStr, answer).data,
                              !.fetched = CmdGet(lib.c, urlStr, answer).fetched,
                              !.opsLeft = @ - 1]
    /\ UNCHANGED nonLibVars

\* one round of refreshWorker: fetchAndCache of the next URL, and its mark deleted
CmdWorkerRound ==
    /\ lib.pc = "cmd"
    /\ lib.opsLeft > 0
    /\ lib.c.queue # <<>>
    /\ \E answer \in CmdAnswers(Head(lib.c.queue)) :
           lib' = [lib EXCEPT
                      !.c = [files |-> IF answer.ok
                                       THEN CmdWritten(lib.c.files, Head(lib.c.queue), answer.data)
                                       ELSE lib.c.files,
                             queue |-> Tail(lib.c.queue),
                             refreshing |-> lib.c.refreshing \ {Head(lib.c.queue)}],
                      !.before = lib.c.files, !.op = "refresh", !.url = Head(lib.c.queue),
                      !.opsLeft = @ - 1]
    /\ UNCHANGED nonLibVars

\* a TTL's worth of time passes
CmdElapseTTL ==
    /\ lib.pc = "cmd"
    /\ \E p \in DOMAIN lib.c.files : ~lib.c.files[p].stale
    /\ lib' = [lib EXCEPT !.c.files = [p \in DOMAIN @ |-> [@[p] EXCEPT !.stale = TRUE]],
                          !.op = "elapse"]
    /\ UNCHANGED nonLibVars

NextCmd ==
    \/ \E urlStr \in URLS : CallCmdGet(urlStr)
    \/ CmdWorkerRound
    \/ CmdElapseTTL

SpecCmd == InitCmd /\ [][NextCmd]_vars

---------------------------------------------------------------------------
(* Properties of the cache *)

\* f is a whole entry for u: the header passes validation and names u
ValidEntry(f, u) ==
    /\ Len(f) >= HeaderSize + Len(u)
    /\ HdrMagic(f) = <<ChM, ChC>>
    /\ HdrVersion(f) = 1
    /\ HdrURLSize(f) = Len(u)
    /\ SubSeq(f, HeaderSize + 1, HeaderSize + Len(u)) = u
    /\ HdrChecksum(f) = simpleChecksum(u)

\* the payload a valid entry for u holds
StoredPayload(f, u) ==
    IF HdrFlags(f) % 2 = 1 THEN Gunzip(Drop(f, HeaderSize + Len(u))).data
    ELSE Drop(f, HeaderSize + Len(u))

WritePcs == {"create", "whdr", "wurl", "wdata", "rename"}

\* the Get of c found a valid entry for its URL when it read the cache
FoundValid(c) ==
    /\ th[c].op = "Get"
    /\ th[c].snapSet
    /\ th[c].snapExists
    /\ ValidEntry(th[c].snap, th[c].url)

\* C1: a Get that finds a valid entry for its URL never fetches, and when it
\* returns it returns the payload stored in that entry without an error,
\* whether the entry is fresh or stale.
C1_HitServedFromCache ==
    \A c \in Clients :
        FoundValid(c) =>
            /\ ~th[c].fetched
            /\ th[c].pc \notin ({"fetch"} \cup WritePcs)
            /\ th[c].pc = "done" =>
                   /\ th[c].retOk
                   /\ th[c].retData = StoredPayload(th[c].snap, th[c].url)

\* a Get has returned the payload of a stale entry
C1_Witness ==
    \E c \in Clients :
        /\ FoundValid(c)
        /\ th[c].pc = "done"
        /\ th[c].qurl = th[c].url
        /\ th[c].retOk
        /\ th[c].retData \in Served(th[c].url)

InFlightPcs == {"fetch", "unmark"} \cup WritePcs

\* how often u waits in the queue or is being refreshed by the worker
Occurrences(u) ==
    Cardinality({i \in 1..Len(refreshQueue) : refreshQueue[i] = u})
    + (IF th[Worker].pc \in InFlightPcs /\ th[Worker].url = u THEN 1 ELSE 0)

QueuedUrls == URLS \cup {refreshQueue[i] : i \in 1..Len(refreshQueue)}

\* C2: a URL is at most once among the queued URLs and the one being
\* refreshed; a send that finds room puts the URL there, and a Get that finds
\* the URL marked returns without sending.
C2_NoDuplicateRefresh ==
    /\ [](\A u \in QueuedUrls : Occurrences(u) <= 1)
    /\ [][\A c \in Clients :
            /\ (th[c].pc = "send" /\ th'[c].pc # "send" /\ Len(refreshQueue) < RefreshQueueCap)
                   => refreshQueue' = Append(refreshQueue, th[c].qurl)
            /\ (th[c].pc = "mark" /\ th[c].qurl \in refreshing /\ th'[c].pc # "mark")
                   => refreshQueue' = refreshQueue]_vars

\* two Gets of one stale entry have returned and its URL is queued or in flight once
C2_Witness ==
    \E c \in Clients, d \in Clients :
        /\ c # d
        /\ th[c].op = "Get" /\ th[d].op = "Get"
        /\ th[c].pc = "done" /\ th[d].pc = "done"
        /\ th[c].qurl # <<>> /\ th[c].qurl = th[d].qurl
        /\ Occurrences(th[c].qurl) = 1

\* C3: a Get that finds no valid entry fetches once and returns the outcome
\* of that fetch; a failed fetch writes nothing; and when the write of the
\* fetched bytes has succeeded, the entry on disk is a fresh entry for the
\* URL that a Get would be served from.
C3_MissFetchesAndPersists ==
    /\ [](\A c \in Clients :
            (th[c].op = "Get" /\ th[c].snapSet /\ ~FoundValid(c) /\ th[c].pc = "done") =>
                /\ th[c].fetched
                /\ th[c].retOk = ~th[c].ferr
                /\ th[c].ferr => ~th[c].renamed
                /\ ~th[c].ferr => th[c].retData = th[c].data /\ th[c].data \in Served(th[c].url))
    /\ [][\A c \in Clients :
            (th[c].op = "Get" /\ th[c].pc = "rename" /\ th'[c].pc = "done" /\ ~th'[c].werr) =>
                LET p == urlToFilename(th[c].url)
                IN  /\ p \in DOMAIN fs'
                    /\ ~inodes'[fs'[p]].stale
                    /\ readCacheBytes(inodes'[fs'[p]].data, th[c].url)
                           = [ok |-> TRUE, data |-> th[c].data]]_vars

\* C4: Close may be called any number of times without crashing.
C4_CloseIdempotent == panicked # "close of closed channel"

\* the complete entries a writeCache call for u produces
WrittenEntries(u) == {EntryBytes(u, p) : p \in Served(u)}

\* C5: while the only writers are two concurrent Gets of one URL, the file at
\* the final cache path of that URL is always the complete output of one
\* writeCache call for it.
C5_EntriesAreWhole ==
    \A u \in URLS :
        (/\ opsLeft = MaxRaceOps - 2
         /\ \A c \in Clients : th[c].op = "Get" /\ th[c].url = u
         /\ Exists(urlToFilename(u)))
            => FileBytes(urlToFilename(u)) \in WrittenEntries(u)

\* C6: the payload a Get returns is never one that was fetched for another URL.
C6_NoForeignPayload ==
    \A c \in Clients :
        (th[c].op = "Get" /\ th[c].pc = "done" /\ th[c].retOk) =>
            \A v \in URLS \ {th[c].url} : th[c].retData \notin Served(v)

\* the entries of u after a damage of the kinds DamagedForms lists
DamagedEntries(u) == UNION {DamagedForms(EntryBytes(u, p)) : p \in Served(u)}

FoundDamaged(c) ==
    /\ th[c].op = "Get"
    /\ th[c].snapSet
    /\ th[c].snapExists
    /\ th[c].snap \in DamagedEntries(th[c].url)

\* C7: a Get that finds a damaged entry for its URL goes the way of a miss:
\* it never takes the hit path, fetches, returns the outcome of the fetch
\* (never an error of the cache), writes the fetched bytes back through
\* writeCache, and the process does not panic.
C7_DamageIsAMiss ==
    /\ panicked = NoPanic
    /\ \A c \in Clients :
        FoundDamaged(c) =>
            /\ th[c].pc \notin {"stat", "mark", "send"}
            /\ th[c].qurl = <<>>
            /\ th[c].pc \in WritePcs => th[c].fetched /\ th[c].data \in Served(th[c].url)
            /\ th[c].pc = "done" =>
                   /\ th[c].fetched
                   /\ th[c].retOk = ~th[c].ferr
                   /\ ~th[c].ferr =>
                          /\ th[c].retData = th[c].data
                          /\ th[c].data \in Served(th[c].url)
                          /\ th[c].renamed \/ th[c].werr

\* a Get has found a damaged entry, fetched, written the bytes back and returned them
C7_Witness ==
    \E c \in Clients :
        /\ FoundDamaged(c)
        /\ th[c].pc = "done"
        /\ th[c].retOk
        /\ th[c].renamed
        /\ ValidEntry(FileBytes(urlToFilename(th[c].url)), th[c].url)

\* C8: the steps of a worker whose fetch has failed change no file and no
\* client's call: the entry stays as it was and no Get sees the failure.
C8_FailedRefreshKeepsEntry ==
    [][((th[Worker].ferr \/ th'[Worker].ferr) /\ th'[Worker] # th[Worker]) =>
          /\ fs' = fs
          /\ inodes' = inodes
          /\ \A c \in Clients : th'[c] = th[c]]_vars

\* the worker's fetch has failed and the entry for the URL is still a valid one
C8_Witness ==
    /\ th[Worker].pc = "unmark"
    /\ th[Worker].ferr
    /\ Exists(urlToFilename(th[Worker].url))
    /\ ValidEntry(FileBytes(urlToFilename(th[Worker].url)), th[Worker].url)
    /\ StoredPayload(FileBytes(urlToFilename(th[Worker].url)), th[Worker].url)
           \in Served(th[Worker].url)

\* the entry file of the codec client's URL, and what follows its header and URL
CodecFile == FileBytes(urlToFilename(th[CodecClient].url))
CodecStored == Drop(CodecFile, HeaderSize + Len(th[CodecClient].url))

\* C9: readCache(u) after writeCache(u, p) returns p; the payload is stored
\* as its gzip form exactly when p is longer than 10240 bytes and the gzip
\* form is shorter than p, and otherwise as p itself; the header's compressed
\* flag is set exactly when the gzip form is what is stored.
C9_RoundTrip ==
    /\ (th[CodecClient].op = "readCache" /\ th[CodecClient].pc = "done") =>
           /\ th[CodecClient].retOk
           /\ th[CodecClient].retData = th[CodecClient].data
    /\ (th[CodecClient].op \in {"writeCache", "readCache"} /\ th[CodecClient].pc \in {"done", "read"}) =>
           /\ ~th[CodecClient].werr
           /\ HdrFlags(CodecFile) \in {0, compressionFlag}
           /\ HdrFlags(CodecFile) = compressionFlag <=> CodecStored = Gzip(th[CodecClient].data)
           /\ HdrFlags(CodecFile) = 0 <=> CodecStored = th[CodecClient].data
           /\ HdrFlags(CodecFile) = compressionFlag <=>
                  /\ Len(th[CodecClient].data) > 10240
                  /\ Len(Gzip(th[CodecClient].data)) < Len(th[CodecClient].data)

\* a payload of 10241 bytes was stored compressed and has been read back
C9_Witness ==
    /\ th[CodecClient].op = "readCache"
    /\ th[CodecClient].pc = "done"
    /\ Len(th[CodecClient].data) = 10241
    /\ HdrFlags(CodecFile) = compressionFlag
    /\ th[CodecClient].retData = th[CodecClient].data

\* tasks whose Get has been called and has not returned
GetsInFlight == {t \in TaskIds : fetcher.task[t].pc = "getting"}

\* tasks between their acquire and their release
SlotHolders == {t \in TaskIds : fetcher.task[t].pc \in {"get", "getting", "record", "release"}}

\* C10: at no moment are more than N Gets in flight on a fetcher of ceiling N,
\* whatever the number of items and also across its two overlapping calls;
\* every Get in flight holds an admission slot, taken before the call and
\* given back after the return.
C10_CeilingRespected ==
    /\ Cardinality(GetsInFlight) <= fetcher.ceiling
    /\ GetsInFlight \subseteq SlotHolders
    /\ fetcher.limiter = Cardinality(SlotHolders)
    /\ fetcher.limiter <= fetcher.ceiling

\* the ceiling is reached by Gets of both calls while a further task waits for a slot
C10_Witness ==
    /\ fetcher.ceiling = 2
    /\ Cardinality(GetsInFlight) = 2
    /\ \E t \in GetsInFlight : t[1] = CallWithCb
    /\ \E t \in GetsInFlight : t[1] = CallPlain
    /\ \E t \in TaskIds : fetcher.task[t].pc = "acquire"

---------------------------------------------------------------------------
(* Properties of the fetcher's callbacks and of its return *)

\* the goroutines of the items the FetchAllWithCb was given
SubmittedTasks == {<<CallWithCb, i>> : i \in 1..Len(fetcher.call[CallWithCb].items)}

\* what the callback of t has to be handed: the item's URL and Index and the
\* outcome of the Get that t made
OwnArguments(t) ==
    [url |-> ItemOf(t).Url, ok |-> fetcher.task[t].ok, data |-> fetcher.task[t].data,
     index |-> ItemOf(t).Index]

\* C11: the callback of a submitted item is invoked at most once, only if the
\* item supplies one and only after the item's Get has returned, with the
\* item's own URL and Index and the outcome of its own Get; when
\* FetchAllWithCb has returned, every item that supplies a callback has had
\* exactly one invocation and every other item none.
C11_CallbackOncePerItem ==
    \A t \in SubmittedTasks :
        /\ Len(fetcher.cb[t].calls) <= 1
        /\ ~ItemOf(t).hasCb => fetcher.cb[t].calls = <<>> /\ fetcher.cb[t].pc = "none"
        /\ fetcher.cb[t].calls # <<>> =>
               /\ fetcher.task[t].pc \in {"release", "wgdone", "exited"}
               /\ fetcher.cb[t].calls[1] = OwnArguments(t)
               /\ fetcher.cb[t].calls[1].data \in
                      {r.data : r \in GetOutcomes(ItemOf(t).Url)}
        /\ (fetcher.call[CallWithCb].pc = "returned" /\ ItemOf(t).hasCb) =>
               Len(fetcher.cb[t].calls) = 1

\* FetchAllWithCb has returned after two items of one URL, one Get failed and
\* one succeeded, and each callback was handed the outcome of its own Get
C11_Witness ==
    /\ fetcher.call[CallWithCb].pc = "returned"
    /\ Len(fetcher.call[CallWithCb].items) = 2
    /\ \A t \in SubmittedTasks : ItemOf(t).hasCb /\ ItemOf(t).Url = UrlHab
                                    /\ Len(fetcher.cb[t].calls) = 1
    /\ fetcher.cb[<<CallWithCb, 1>>].calls[1].ok
    /\ ~fetcher.cb[<<CallWithCb, 2>>].calls[1].ok

\* C12: when FetchAllWithCb has returned, every goroutine it started has
\* ended (none waits for a slot, is inside Get or still holds a slot) and
\* every callback it started has returned (none is running or yet to start).
C12_ReturnAfterJoin ==
    fetcher.call[CallWithCb].pc = "returned" =>
        \A t \in SubmittedTasks :
            /\ fetcher.task[t].pc = "exited"
            /\ fetcher.cb[t].pc = IF ItemOf(t).hasCb THEN "returned" ELSE "none"

\* FetchAllWithCb has returned and the callback of its last item was the last to end
C12_Witness ==
    /\ fetcher.call[CallWithCb].pc = "returned"
    /\ fetcher.call[CallWithCb].wgCallbacks = 0
    /\ Len(fetcher.call[CallWithCb].items) = 2
    /\ \A t \in SubmittedTasks : fetcher.cb[t].pc = "returned" /\ fetcher.task[t].pc = "exited"
    /\ fetcher.limiter = 0

---------------------------------------------------------------------------
(* Properties of the refresh queue when it is full *)

\* C13: a caller that has reached the send of queueRefresh can always take
\* its step, whatever the queue holds; when the queue holds its full capacity
\* the step leaves the queue as it is, takes the URL's mark back, and a Get
\* returns the cached bytes it read, without an error.
C13_EnqueueNeverBlocks ==
    /\ [](\A c \in Clients : (th[c].pc = "send" /\ Running) => ENABLED SendRefresh(c))
    /\ [][\A c \in Clients :
            (/\ th[c].pc = "send"
             /\ th'[c] # th[c]
             /\ Len(refreshQueue) = RefreshQueueCap) =>
                /\ refreshQueue' = refreshQueue
                /\ th[c].qurl \notin refreshing'
                /\ th[c].op = "RefreshAllStale" => th'[c].pc = "rnext"
                /\ th[c].op = "Get" =>
                       /\ th'[c].pc = "done"
                       /\ th'[c].retOk
                       /\ th'[c].retData = StoredPayload(th[c].snap, th[c].url)]_vars

\* a Get of a stale entry has returned the cached bytes while the queue is
\* full and its URL is neither queued nor marked: the request was dropped
C13_Witness ==
    \E c \in Clients :
        /\ th[c].op = "Get"
        /\ th[c].pc = "done"
        /\ th[c].retOk
        /\ th[c].qurl = th[c].url
        /\ th[c].retData \in Served(th[c].url)
        /\ Len(refreshQueue) = RefreshQueueCap
        /\ \A i \in 1..Len(refreshQueue) : refreshQueue[i] # th[c].url
        /\ th[c].url \notin refreshing
        /\ th[Worker].url # th[c].url

---------------------------------------------------------------------------
(* Properties of the capability requirements *)

HasBracket(s) == Contains(s, ChLBracket) \/ Contains(s, ChRBracket)

\* C14: Matches is true exactly when every group of the requirement has a
\* token that the available map holds with the value true; with no group at
\* all, as for the parse of the empty string, it is true for every map.
C14_MatchesIffEveryGroupHit ==
    lib.pc = "matched" =>
        /\ lib.matched <=>
               \A g \in 1..Len(lib.req.Groups) :
                   \E i \in 1..Len(lib.req.Groups[g]) :
                       /\ lib.req.Groups[g][i] \in DOMAIN lib.availableCaps
                       /\ lib.availableCaps[lib.req.Groups[g][i]] = TRUE
        /\ lib.req.Groups = <<>> => lib.matched
        /\ (lib.parsed /\ lib.capString = <<>>) => lib.matched

\* the requirement of "[a,b]" matched a map that holds a with false and b with true
C14_Witness ==
    /\ lib.pc = "matched"
    /\ lib.parsed
    /\ lib.capString = <<91, 97, 44, 98, 93>>
    /\ lib.req.Groups = <<<<<<97>>, <<98>>>>>>
    /\ DOMAIN lib.availableCaps = CapTokens
    /\ ~lib.availableCaps[<<97>>]
    /\ lib.availableCaps[<<98>>]
    /\ lib.matched

\* C15: the parse of a non-empty string without bracket characters has one
\* group per white-space-delimited field, in the order of the fields, each
\* group holding just that field, and IsV2 is false.
C15_LegacyOneGroupPerField ==
    (lib.pc # "none" /\ lib.parsed /\ lib.capString # <<>> /\ ~HasBracket(lib.capString)) =>
        /\ ~lib.req.IsV2
        /\ Len(lib.req.Groups) = Len(Fields(lib.capString))
        /\ \A i \in 1..Len(lib.req.Groups) : lib.req.Groups[i] = <<Fields(lib.capString)[i]>>
        /\ \A i \in 1..Len(lib.req.Groups) :
               \A k \in 1..Len(lib.req.Groups[i][1]) : ~IsSpace(lib.req.Groups[i][1][k])

\* " b\va," was parsed into the groups (b) and (a,)
C15_Witness ==
    /\ lib.pc = "have"
    /\ lib.parsed
    /\ lib.capString = <<32, 98, 11, 97, 44>>
    /\ lib.req = [Groups |-> <<<<<<98>>>>, <<<<97, 44>>>>>>, IsV2 |-> FALSE]

\* C16: a parsed string yields IsV2 = true exactly when it contains a
\* bracket character, '[' or ']'.
C16_BracketMeansV2 ==
    (lib.pc # "none" /\ lib.parsed) => (lib.req.IsV2 <=> HasBracket(lib.capString))

\* the bracket pairs of s, and whether s is made of bracket pairs that do
\* not nest, with text between them
Opens(s) == Ascending({i \in 1..Len(s) : s[i] = ChLBracket})
Closes(s) == Ascending({i \in 1..Len(s) : s[i] = ChRBracket})
WellBracketed(s) ==
    /\ Len(Opens(s)) = Len(Closes(s))
    /\ Len(Opens(s)) >= 1
    /\ \A k \in 1..Len(Opens(s)) :
           /\ Opens(s)[k] < Closes(s)[k]
           /\ k < Len(Opens(s)) => Closes(s)[k] < Opens(s)[k + 1]

\* the text before the k-th bracket pair of s (after the last one for k = n + 1)
Outside(s, k) ==
    SubSeq(s, IF k = 1 THEN 1 ELSE Closes(s)[k - 1] + 1,
              IF k = Len(Opens(s)) + 1 THEN Len(s) ELSE Opens(s)[k] - 1)

\* the text inside the k-th bracket pair of s
Inside(s, k) == SubSeq(s, Opens(s)[k] + 1, Closes(s)[k] - 1)

RECURSIVE DocumentGroups(_, _)
\* the groups of the first k bracket pairs of s and of the text before them
DocumentGroups(s, k) ==
    IF k = 0 THEN <<>>
    ELSE DocumentGroups(s, k - 1)
         \o SingletonGroups(Fields(Outside(s, k)))
         \o (IF Cleaned(Inside(s, k)) # <<>> THEN <<Cleaned(Inside(s, k))>> ELSE <<>>)

\* C17: the groups of a bracketed string are, in document order, one
\* single-token group per white-space-delimited run outside the brackets and
\* one group per bracket pair: its comma-separated entries, trimmed and
\* otherwise as written, the empty ones dropped, and no group when none is left.
C17_GroupsInDocumentOrder ==
    (lib.pc # "none" /\ lib.parsed /\ WellBracketed(lib.capString)) =>
        lib.req.Groups =
            DocumentGroups(lib.capString, Len(Opens(lib.capString)))
            \o SingletonGroups(Fields(Outside(lib.capString, Len(Opens(lib.capString)) + 1)))

\* s without the blanks that the scan passes over inside brackets
Unblanked(s) == SelectSeq(s, LAMBDA b : b \notin {32, 9, 10, 13})

RECURSIVE ScannedGroups(_, _)
\* as DocumentGroups, the entries of a bracket pair read without their blanks
ScannedGroups(s, k) ==
    IF k = 0 THEN <<>>
    ELSE ScannedGroups(s, k - 1)
         \o SingletonGroups(Fields(Outside(s, k)))
         \o (IF Cleaned(Unblanked(Inside(s, k))) # <<>>
             THEN <<Cleaned(Unblanked(Inside(s, k)))>> ELSE <<>>)

\* C17 (amended): as C17, except that the entries of a bracket pair are read
\* with every space, tab, newline and carriage return inside the brackets
\* removed, not only the leading and trailing ones.
C17_GroupsWithBlanksRemoved ==
    (lib.pc # "none" /\ lib.parsed /\ WellBracketed(lib.capString)) =>
        lib.req.Groups =
            ScannedGroups(lib.capString, Len(Opens(lib.capString)))
            \o SingletonGroups(Fields(Outside(lib.capString, Len(Opens(lib.capString)) + 1)))

\* "[a b]" was parsed into the one group (ab)
C17_Witness ==
    /\ lib.pc = "have"
    /\ lib.parsed
    /\ lib.capString = <<91, 97, 32, 98, 93>>
    /\ lib.req = [Groups |-> <<<<<<97, 98>>>>>>, IsV2 |-> TRUE]

\* the letters of a string, and the tokens of a requirement one after the other
Letters(s) == SelectSeq(s, IsLetter)
RECURSIVE Flat(_)
Flat(seqs) == IF Len(seqs) = 0 THEN <<>> ELSE Head(seqs) \o Flat(Tail(seqs))

\* C18: every parse returns a requirement whose groups are non-empty and
\* whose tokens are non-empty; nothing of the input is lost, balanced or not:
\* the letters of the input are the letters of the tokens, in order, so what
\* was pending at the end of input is in the groups.
C18_TotalAndLenient ==
    (lib.pc # "none" /\ lib.parsed) =>
        /\ lib.req.IsV2 \in BOOLEAN
        /\ \A g \in 1..Len(lib.req.Groups) :
               /\ Len(lib.req.Groups[g]) >= 1
               /\ \A i \in 1..Len(lib.req.Groups[g]) : Len(lib.req.Groups[g][i]) >= 1
        /\ Letters(Flat(Flat(lib.req.Groups))) = Letters(lib.capString)

\* "[a,b", a bracket that is never closed, was parsed into the one group (a,b)
C18_Witness ==
    /\ lib.pc = "have"
    /\ lib.parsed
    /\ lib.capString = <<91, 97, 44, 98>>
    /\ lib.req = [Groups |-> <<<<<<97, 44, 98>>>>>>, IsV2 |-> TRUE]

RECURSIVE Rendering(_)
\* the groups one after the other with " AND " between them
Rendering(groups) ==
    LET first == IF Len(groups[1]) = 1 THEN groups[1][1]
                 ELSE <<40>> \o Join(groups[1], <<32, 79, 82, 32>>) \o <<41>>
    IN  IF Len(groups) = 1 THEN first
        ELSE first \o <<32, 65, 78, 68, 32>> \o Rendering(Tail(groups))

\* C19: String renders no groups as "(no requirements)", and groups (each
\* with a token) in order with " AND " between them, a single token bare and
\* several tokens with " OR " between them inside parentheses.
C19_StringForm ==
    (lib.pc = "rendered" /\ \A g \in 1..Len(lib.req.Groups) : Len(lib.req.Groups[g]) >= 1) =>
        lib.text = IF lib.req.Groups = <<>> THEN NoRequirements ELSE Rendering(lib.req.Groups)

\* the groups (a) and (a, b) were rendered as "a AND (a OR b)"
C19_Witness ==
    /\ lib.pc = "rendered"
    /\ lib.req.Groups = <<<<<<97>>>>, <<<<97>>, <<98>>>>>>
    /\ lib.text = <<97, 32, 65, 78, 68, 32, 40, 97, 32, 79, 82, 32, 98, 41>>

---------------------------------------------------------------------------
(* Properties of ResolveDependencies *)

\* the ids of a list
IdsOf(list) == {list[i] : i \in 1..Len(list)}

\* the pairs looked up and found, and the ids their dependees name
Expanded == {q \in DOMAIN lib.mwDeps : lib.mwDeps[q].found}
DependeeIds(q) == {lib.mwDeps[q].deps[i].ID : i \in 1..Len(lib.mwDeps[q].deps)}

\* C20: ResolveDependencies returns on every manifest, also one with cycles
\* and diamonds; no id is ever twice in its list, the list starts with the
\* starting component, holds every dependee of every version it went
\* through, and holds nothing but the start and such dependees.
C20_TerminatesEachOnce ==
    /\ <>(lib.pc = "returned")
    /\ [](\A i, j \in 1..Len(lib.allDeps) : lib.allDeps[i] = lib.allDeps[j] => i = j)
    /\ [](lib.pc = "returned" =>
            /\ lib.result = lib.allDeps
            /\ lib.result[1] = lib.libraryID
            /\ \A q \in Expanded : DependeeIds(q) \subseteq IdsOf(lib.result)
            /\ IdsOf(lib.result) = {lib.libraryID} \cup UNION {DependeeIds(q) : q \in Expanded})

\* component 1 requires 2 and 3, 2 requires 3 at version 1, 3 requires 2 at
\* version 2 and 1: a diamond, two cycles and a component at two versions
C20_Witness ==
    /\ lib.pc = "returned"
    /\ lib.libraryID = 1
    /\ lib.result = <<1, 2, 3>>
    /\ <<1, lib.version>> \in Expanded
    /\ DependeeIds(<<1, lib.version>>) = {2, 3}
    /\ \E v \in Vers :
           /\ <<2, v>> \in Expanded
           /\ lib.mwDeps[<<2, v>>].deps = <<[ID |-> 3, Commit |-> 1]>>
    /\ <<3, 1>> \in Expanded
    /\ lib.mwDeps[<<3, 1>>].deps \in {<<[ID |-> 2, Commit |-> v], [ID |-> 1, Commit |-> w]>> : v, w \in Vers}
    /\ \E v \in Vers : /\ <<2, v>> \in Expanded
                       /\ lib.mwDeps[<<3, 1>>].deps[1].Commit # v

\* the call started at A, A's record names the one dependee B, another
\* component, and the call has returned
StartRequiresOnly(B) ==
    /\ lib.pc = "returned"
    /\ B.ID # lib.libraryID
    /\ <<lib.libraryID, lib.version>> \in Expanded
    /\ lib.mwDeps[<<lib.libraryID, lib.version>>].deps = <<B>>

\* the record of B at the version required names A and nothing else
RequiresStartBack(B) ==
    /\ <<B.ID, B.Commit>> \in Expanded
    /\ Len(lib.mwDeps[<<B.ID, B.Commit>>].deps) = 1
    /\ lib.mwDeps[<<B.ID, B.Commit>>].deps[1].ID = lib.libraryID

\* C21: on the cycle A -> B -> A the call started at A returns [A, B]; when
\* B has no record at the version A requires it returns [A].
C21_CycleAndAbsent ==
    \A B \in Dependees :
        StartRequiresOnly(B) =>
            /\ RequiresStartBack(B) => lib.result = <<lib.libraryID, B.ID>>
            /\ ~lib.mwDeps[<<B.ID, B.Commit>>].found => lib.result = <<lib.libraryID>>

\* C21 (amended): on the cycle A -> B -> A the call started at A returns
\* [A, B]; when B has no record at the version A requires it returns [A, B]
\* as well: B is listed and not gone into.
C21_CycleAndAbsentListed ==
    \A B \in Dependees :
        StartRequiresOnly(B) =>
            /\ RequiresStartBack(B) => lib.result = <<lib.libraryID, B.ID>>
            /\ ~lib.mwDeps[<<B.ID, B.Commit>>].found => lib.result = <<lib.libraryID, B.ID>>

\* component 1 requires 2 at version 2, which has no record: [1, 2] was returned
C21_Witness ==
    /\ StartRequiresOnly([ID |-> 2, Commit |-> 2])
    /\ lib.libraryID = 1
    /\ lib.mwDeps[<<2, 2>>] = NotFound
    /\ lib.result = <<1, 2>>

---------------------------------------------------------------------------
(* Properties of the dependency indexes *)

BspQueries == {"CreateMaps", "GetDependencies", "GetBSP", "FindBSPsUsingLibrary"}

\* C22: the indexes are built by the first query; once they are there, no
\* query and no change of the depender list alters DependersMap (with the
\* VersionsMap and DependeesMap it leads to) or LibraryMap, until the owner
\* discards them; a query on discarded or missing indexes builds them from
\* the list as it then is.
C22_IndexesBuiltOnce ==
    /\ [][(lib.pc = "bsp" /\ ~lib.m.DependersMap.nil /\ lib'.query # "discard") =>
              /\ lib'.m.DependersMap = lib.m.DependersMap
              /\ lib'.m.LibraryMap = lib.m.LibraryMap]_vars
    /\ [][(lib.pc = "bsp" /\ lib.m.DependersMap.nil /\ lib'.query \in BspQueries) =>
              /\ ~lib'.m.DependersMap.nil
              /\ DOMAIN lib'.m.DependersMap.at = KeysOf(lib.m.Dependers, "ID")
              /\ DOMAIN lib'.m.LibraryMap.at = LibrariesOf(lib.m.Dependers)]_vars
    /\ [][(lib.pc = "bsp" /\ lib.m.DependersMap.nil /\ lib'.query \notin BspQueries) =>
              lib'.m.DependersMap.nil]_vars

\* the indexes were built, a depender with a new id was appended, and GetBSP
\* for that id returned nil
C22_Witness ==
    /\ lib.pc = "bsp"
    /\ lib.query = "GetBSP"
    /\ lib.result = NilDepender
    /\ ~lib.m.DependersMap.nil
    /\ Len(lib.m.Dependers) = 2
    /\ lib.m.Dependers[2].ID \notin DOMAIN lib.m.DependersMap.at
    /\ lib.m.Dependers[1].ID \in DOMAIN lib.m.DependersMap.at
    /\ lib.m.LibraryMap.at # <<>>

---------------------------------------------------------------------------
(* Properties of the assembly of the tree *)

\* the call is over, by a return or by a panic
AssemblyOver == lib.pc \in {"returned", "panicked"}

\* the root was fetched and parsed
RootOk == lib.pc \in {"assemble", "collected", "fetched", "returned", "panicked"} /\ lib.root.err = "none"

\* the child and the auxiliary URLs of the root document
ChildUrls ==
    KeysOf(lib.root.sm.at.BoardManifest, "URI") \cup KeysOf(lib.root.sm.at.AppManifest, "URI")
    \cup KeysOf(lib.root.sm.at.MiddlewareManifest, "URI")
AuxUrls ==
    (KeysOf(lib.root.sm.at.BoardManifest, "DependencyURL")
     \cup KeysOf(lib.root.sm.at.BoardManifest, "CapabilityURL")
     \cup KeysOf(lib.root.sm.at.MiddlewareManifest, "DependencyURL")) \ {NoUrl}

\* the call returned a tree and a nil error, and in the tree a reference has
\* its document exactly when its URL served one
ReturnedTreeWithChildren ==
    /\ lib.pc = "returned"
    /\ lib.err = "none"
    /\ ~lib.ret.nil
    /\ \A i \in 1..Len(lib.ret.at.BoardManifest) :
           lib.ret.at.BoardManifest[i].Boards.nil <=> lib.served[lib.ret.at.BoardManifest[i].URI].err
    /\ \A i \in 1..Len(lib.ret.at.AppManifest) :
           lib.ret.at.AppManifest[i].Apps.nil <=> lib.served[lib.ret.at.AppManifest[i].URI].err
    /\ \A i \in 1..Len(lib.ret.at.MiddlewareManifest) :
           lib.ret.at.MiddlewareManifest[i].Middlewares.nil
               <=> lib.served[lib.ret.at.MiddlewareManifest[i].URI].err
    /\ Len(lib.ret.at.BoardManifest) = Len(lib.root.sm.at.BoardManifest)
    /\ Len(lib.ret.at.AppManifest) = Len(lib.root.sm.at.AppManifest)
    /\ Len(lib.ret.at.MiddlewareManifest) = Len(lib.root.sm.at.MiddlewareManifest)

\* C23: with the root fetched and parsed and some child document failing
\* (the auxiliary documents all served), the call returns a tree and a nil
\* error; the failed references are nil, the others populated, whatever
\* dependency or capability URLs the failed references carry.
C23_ChildFailureTolerated ==
    (AssemblyOver /\ RootOk
     /\ (\E u \in ChildUrls : lib.served[u].err)
     /\ (\A u \in AuxUrls : ~lib.served[u].err))
        => ReturnedTreeWithChildren

\* the items of the references that name the auxiliary URL u, in the tree returned
ItemsUsing(u) ==
    UNION ({{lib.ret.at.BoardManifest[i].Boards.at[k] : k \in 1..Len(lib.ret.at.BoardManifest[i].Boards.at)} :
               i \in {j \in 1..Len(lib.ret.at.BoardManifest) :
                          /\ u \in {lib.ret.at.BoardManifest[j].DependencyURL,
                                    lib.ret.at.BoardManifest[j].CapabilityURL}
                          /\ ~lib.ret.at.BoardManifest[j].Boards.nil}}
           \cup
           {{lib.ret.at.MiddlewareManifest[i].Middlewares.at[k] :
                 k \in 1..Len(lib.ret.at.MiddlewareManifest[i].Middlewares.at)} :
               i \in {j \in 1..Len(lib.ret.at.MiddlewareManifest) :
                          /\ u = lib.ret.at.MiddlewareManifest[j].DependencyURL
                          /\ ~lib.ret.at.MiddlewareManifest[j].Middlewares.nil}})

\* C24: with the root and every child document fetched and parsed and some
\* dependency or capability document failing, the call neither panics nor
\* returns an error: it returns the tree with the children populated, and
\* the items that name a failed document have no data from it.
C24_AuxFailureTolerated ==
    (AssemblyOver /\ RootOk
     /\ (\A u \in ChildUrls : ~lib.served[u].err)
     /\ (\E u \in AuxUrls : lib.served[u].err))
        => /\ ReturnedTreeWithChildren
           /\ \A u \in AuxUrls : lib.served[u].err =>
                  \A item \in ItemsUsing(u) :
                      /\ u[1] = "dep" => item.Dependencies.nil
                      /\ u[1] = "cap" => item.Capabilities.nil

\* C25: when the root cannot be fetched or parsed, the call returns an
\* error and no tree and has issued no fetch of a child or auxiliary
\* document; such fetches are issued only with the root fetched and parsed.
C25_RootFailureAborts ==
    /\ (lib.pc = "returned" /\ lib.root.err # "none") =>
           /\ lib.err = lib.root.err
           /\ lib.ret.nil
           /\ lib.issued = {}
    /\ (lib.pc \in {"assemble", "collected"}) => lib.issued = {}
    /\ lib.issued # {} => (lib.root.err = "none" /\ ~lib.sm.nil)
    /\ (lib.pc = "returned" /\ lib.root.err = "none") => (lib.err = "none" /\ ~lib.ret.nil)

\* the parse of the root failed, and the call returned the error and no tree
C25_Witness ==
    /\ lib.pc = "returned"
    /\ lib.root.err = "parse"
    /\ lib.err = "parse"
    /\ lib.ret.nil
    /\ lib.issued = {}

\* C26: after a successful assembly every board and middleware item whose
\* reference names a dependency URL with a fetched document has the
\* depender with its id of that document as Dependencies, and every board
\* whose reference names a fetched capability URL has that document as
\* Capabilities, also when references share a URL.
C26_AuxDataOnEveryItem ==
    (lib.pc = "returned" /\ lib.root.err = "none") =>
        \A u \in AuxUrls : ~lib.served[u].err =>
            \A item \in ItemsUsing(u) :
                /\ u[1] = "dep" => item.Dependencies = DependerOf(lib.served[u], item.ID)
                /\ u[1] = "cap" => (item.Origin[1] = "board" => item.Capabilities = Made(lib.served[u]))

---------------------------------------------------------------------------
(* Properties of the merge of two trees *)

\* the items of a kind that the receiver had before the merge and that the
\* other tree has
ItemsOfBoth(list, field) ==
    ItemsIn(lib.before[list], field, Len(lib.before[list]))
    \o ItemsIn(lib.other[list], field, Len(lib.other[list]))

\* after the merge a lookup of id among the items of both trees gave result
FoundAmongBoth(list, field) ==
    /\ lib.result.exists <=> lib.id \in KeysOf(ItemsOfBoth(list, field), "ID")
    /\ lib.result.exists =>
           \E k \in 1..Len(ItemsOfBoth(list, field)) : lib.result.item = Made(ItemsOfBoth(list, field)[k])
    /\ \A k \in 1..Len(ItemsOfBoth(list, field)) :
           ItemsOfBoth(list, field)[k].ID = lib.id => lib.result.item.at.ID = lib.id

\* C27: after AddSuperManifest(other) the lists are the lists of both trees
\* one after the other, a lookup by id finds an item exactly when one of
\* the two trees has an item with that id, also when the lookup map had been
\* built before the merge, the id-indexed maps hold the ids of both trees,
\* and the auxiliary maps hold every URL of both trees.
C27_LookupsReflectMerge ==
    (lib.pc = "merge" /\ lib.merged) =>
        /\ lib.sm.BoardManifest = lib.before.BoardManifest \o lib.other.BoardManifest
        /\ lib.sm.AppManifest = lib.before.AppManifest \o lib.other.AppManifest
        /\ lib.sm.MiddlewareManifest = lib.before.MiddlewareManifest \o lib.other.MiddlewareManifest
        /\ DOMAIN lib.sm.dependenciesMap.at
               = DOMAIN lib.before.dependenciesMap.at \cup DOMAIN lib.other.dependenciesMap.at
        /\ DOMAIN lib.sm.bspCapabilitiesMap.at
               = DOMAIN lib.before.bspCapabilitiesMap.at \cup DOMAIN lib.other.bspCapabilitiesMap.at
        /\ lib.query = "GetBoard" =>
               /\ FoundAmongBoth("BoardManifest", "Boards")
               /\ DOMAIN lib.sm.boardsMap.at = KeysOf(ItemsOfBoth("BoardManifest", "Boards"), "ID")
        /\ lib.query = "GetApp" =>
               /\ FoundAmongBoth("AppManifest", "Apps")
               /\ DOMAIN lib.sm.appMap.at = KeysOf(ItemsOfBoth("AppManifest", "Apps"), "ID")
        /\ lib.query = "GetMiddleware" =>
               /\ FoundAmongBoth("MiddlewareManifest", "Middlewares")
               /\ DOMAIN lib.sm.middlewareMap.at
                      = KeysOf(ItemsOfBoth("MiddlewareManifest", "Middlewares"), "ID")

\* board 1 was looked up and the map built, the tree with board 2 was
\* merged, and the lookup of board 2 found it
C27_Witness ==
    /\ lib.pc = "merge"
    /\ lib.merged
    /\ lib.opsLeft = MaxMergeOps - 2
    /\ lib.query = "GetBoard"
    /\ lib.id = 2
    /\ lib.result.exists
    /\ lib.result.item.at.Origin = Uri("board", 2)
    /\ DOMAIN lib.sm.boardsMap.at = {1, 2}
    /\ Len(lib.before.BoardManifest) = 1
    /\ DOMAIN lib.sm.dependenciesMap.at = {Uri("dep", 1), Uri("dep", 2)}

---------------------------------------------------------------------------
(* Properties of GetDependenciesByID *)

\* the record of id in the document loaded for the URL, nil without one
RecordOf(urlStr, Id) ==
    LET doc == MapGet(lib.sm.dependenciesMap, urlStr, Nil)
    IN  IF doc.nil \/ Id.n \notin KeysOf(doc.at.Dependers, "ID") THEN Nil
        ELSE Made(LastWith(doc.at.Dependers, "ID", Id.n))

\* C28: GetDependenciesByID(url, id) returns nil when url or id is "" or
\* "N/A"; otherwise it returns the depender record with that id of the
\* document loaded for url, and nil, without a panic, when no document is
\* loaded for url or the id is not in it.
C28_ByIdReturnsRecord ==
    lib.query = "GetDependenciesByID" =>
        /\ lib.pc # "panicked"
        /\ lib.ret = IF {lib.urlStr, lib.Id} \cap {EmptyStr, NotAvailable} # {} THEN Nil
                     ELSE RecordOf(lib.urlStr, lib.Id)

---------------------------------------------------------------------------
(* Properties of the Manifest utilities *)

\* the list that a Remove call worked on, after the call
ListAfter ==
    IF lib.op = "RemoveDependency" THEN lib.m.Dependencies
    ELSE IF lib.op = "RemoveBoard" THEN lib.m.Boards
    ELSE lib.m.Apps

\* after is before without the entry at position i
WithoutEntry(before, after, i) ==
    /\ Len(after) = Len(before) - 1
    /\ \A k \in 1..Len(after) : after[k] = IF k < i THEN before[k] ELSE before[k + 1]

\* C29: RemoveDependency(name), RemoveBoard(name) and RemoveApp(name) return
\* true exactly when the list has an entry of that name; the list is then
\* the old list without the first such entry, the other entries in their
\* order; on false the list is unchanged.  The other lists never change.
C29_RemovesFirstNamed ==
    (lib.pc = "manifest" /\ lib.op \in {"RemoveDependency", "RemoveBoard", "RemoveApp"}) =>
        /\ lib.ret <=> \E i \in 1..Len(lib.before) : lib.before[i].Name = lib.name
        /\ lib.ret =>
               \E i \in 1..Len(lib.before) :
                   /\ lib.before[i].Name = lib.name
                   /\ \A j \in 1..(i - 1) : lib.before[j].Name # lib.name
                   /\ WithoutEntry(lib.before, ListAfter, i)
        /\ ~lib.ret => ListAfter = lib.before

\* a dependency named twice was removed by name: the second one stays
C29_Witness ==
    /\ lib.pc = "manifest"
    /\ lib.op = "RemoveDependency"
    /\ lib.ret
    /\ Len(lib.before) = 3
    /\ lib.before[2].Name = lib.name
    /\ lib.before[3].Name = lib.name
    /\ lib.before[1].Name # lib.name
    /\ lib.m.Dependencies = <<lib.before[1], lib.before[3]>>

\* the entries of a list have names, no two the same
NamesGood(entries) ==
    /\ \A i \in 1..Len(entries) : entries[i].Name # ""
    /\ \A i, j \in 1..Len(entries) : i # j => entries[i].Name # entries[j].Name

\* the positions of a list whose name an earlier entry has
Repeated(entries) ==
    {i \in 1..Len(entries) : entries[i].Name # "" /\ \E j \in 1..(i - 1) : entries[j].Name = entries[i].Name}

DuplicateErrors(list) ==
    {k \in 1..Len(lib.errors) : lib.errors[k].what = "duplicate name" /\ lib.errors[k].list = list}

\* C30: ValidateManifest returns no error exactly when the manifest name
\* and version are not empty, every dependency has a name and a version,
\* and the names of the dependencies, of the boards and of the apps are not
\* empty and differ within their list; every repeated occurrence of a name
\* adds one error.
C30_ValidIffNoErrors ==
    (lib.pc = "manifest" /\ lib.op = "ValidateManifest") =>
        /\ lib.errors = <<>> <=>
               /\ lib.m.Name # ""
               /\ lib.m.Version # ""
               /\ \A i \in 1..Len(lib.m.Dependencies) : lib.m.Dependencies[i].Version # ""
               /\ NamesGood(lib.m.Dependencies)
               /\ NamesGood(lib.m.Boards)
               /\ NamesGood(lib.m.Apps)
        /\ Cardinality(DuplicateErrors("dependency")) = Cardinality(Repeated(lib.m.Dependencies))
        /\ Cardinality(DuplicateErrors("board")) = Cardinality(Repeated(lib.m.Boards))
        /\ Cardinality(DuplicateErrors("app")) = Cardinality(Repeated(lib.m.Apps))

\* a manifest with one dependency name three times and nothing else wrong:
\* two errors
C30_Witness ==
    /\ lib.pc = "manifest"
    /\ lib.op = "ValidateManifest"
    /\ Len(lib.m.Dependencies) = 3
    /\ Cardinality(Repeated(lib.m.Dependencies)) = 2
    /\ Len(lib.errors) = 2
    /\ NamesGood(lib.m.Boards)
    /\ Len(lib.m.Boards) = 1

---------------------------------------------------------------------------
(* Properties of the background refresh *)

\* u waits in the refresh queue
Queued(u) == \E i \in 1..Len(refreshQueue) : refreshQueue[i] = u

\* C31: a stale entry whose refresh is queued is overwritten with the
\* bytes the worker fetches: when the worker, the cache not closed, ends the
\* write of what it fetched for the URL, the entry of the URL holds these
\* bytes and is fresh, so that a later Get returns the new payload.
C31_StaleEntryRefreshed ==
    [][(th[Worker].pc = "rename" /\ th'[Worker].pc = "unmark" /\ ~closed) =>
          /\ urlToFilename(th[Worker].url) \in DOMAIN fs'
          /\ inodes'[fs'[urlToFilename(th[Worker].url)]].data
                 = EntryBytes(th[Worker].url, th[Worker].data)
          /\ ~inodes'[fs'[urlToFilename(th[Worker].url)]].stale]_vars

---------------------------------------------------------------------------
(* Properties of the goroutines of the assembly *)

\* the callbacks that are at a write to the tree, depMap or capMap
Writing == {t \in TreeTasks : lib.cb[t] \in {"splice", "origins"}}

\* C32: a callback writes to the tree only while it holds the mutex of the
\* assembly, so no two callbacks write at the same time, and the second
\* pass runs only when every fetch goroutine has exited and every callback
\* has returned or was never started.
C32_TreeWritesSerialized ==
    lib.pc = "tree" =>
        /\ \A t \in Writing : lib.mu = t
        /\ Cardinality(Writing) <= 1
        /\ \A t \in TreeTasks : lib.cb[t] = "unlock" => lib.mu = t
        /\ lib.main \in {"second pass", "returned"} =>
               /\ Writing = {}
               /\ lib.mu = Unlocked
               /\ \A t \in TreeTasks :
                      /\ fetcher.task[t].pc \in {"unborn", "exited"}
                      /\ fetcher.cb[t].pc \in {"none", "returned"}
                      /\ lib.cb[t] \in {"entry", "end"}
                      /\ lib.cb[t] = "entry" => fetcher.task[t].pc = "unborn"

\* one callback writes under the mutex while the other, its document
\* parsed, waits for it
C32_Witness ==
    /\ lib.pc = "tree"
    /\ lib.cb[<<CallWithCb, 1>>] = "origins"
    /\ lib.cb[<<CallWithCb, 2>>] = "lock"
    /\ lib.mu = <<CallWithCb, 1>>
    /\ lib.main = "fetch"

---------------------------------------------------------------------------
(* Properties of the cache of the command-line tool *)

\* what the file of the requested URL held when the Get was called
CmdEntryBefore ==
    LET f == CmdFile(lib.before, urlToFilename(lib.url))
    IN  IF f.nil THEN decodeBytesToUrl(<<>>) ELSE decodeBytesToUrl(f.at.data)

\* C33: the Get of the command-line tool serves a payload from the cache
\* only when the entry was stored for the requested URL; an entry stored
\* for another URL with the same file name is a miss, and the URL is
\* fetched.
C33_CmdHitOnlyForOwnUrl ==
    (lib.pc = "cmd" /\ lib.op = "Get") =>
        /\ ~lib.fetched => CmdEntryBefore.ok /\ CmdEntryBefore.url = lib.url
        /\ (CmdEntryBefore.ok /\ CmdEntryBefore.url # lib.url) => lib.fetched

---------------------------------------------------------------------------
(* Properties of the reverse index *)

\* the ids of the dependers that name library in one of their versions
DependersUsing(library) ==
    {lib.m.Dependers[n].ID : n \in {k \in 1..Len(lib.m.Dependers) :
        \E v \in 1..Len(lib.m.Dependers[k].Versions) :
            \E i \in 1..Len(lib.m.Dependers[k].Versions[v].Dependees) :
                lib.m.Dependers[k].Versions[v].Dependees[i].ID = library}}

\* C34: FindBSPsUsingLibrary(library) returns the ids of the dependers that
\* name library as a dependee in at least one of their versions, each id
\* once, and nothing for a library that no depender uses.
C34_UsersEachOnce ==
    (lib.pc = "bsp" /\ lib.query = "FindBSPsUsingLibrary") =>
        \A library \in BspIds :
            lib.result = FindBSPsUsingLibrary(lib.m, library) =>
                /\ {lib.result[i] : i \in 1..Len(lib.result)} = DependersUsing(library)
                /\ \A i, j \in 1..Len(lib.result) : i # j => lib.result[i] # lib.result[j]

---------------------------------------------------------------------------
(* Properties of ParseVersion *)

\* the minor and patch components of the version string, as the pattern
\* finds them: <<>> for a missing one
ComponentsOf(version) == FindStringSubmatch(ToUpper(version)).groups

MissingOrX(component) == component = <<>> \/ component = <<"X">>

\* C35: ParseVersion sets Minor and Patch to -1 whenever that component is
\* missing from the version string or is X, so major.minor and major.X give
\* Patch = -1, and String() of the result does not print -1.
C35_MissingComponentIsMinusOne ==
    (lib.pc = "version" /\ lib.step # "start" /\ lib.parsed.kind = "ok") =>
        /\ MissingOrX(ComponentsOf(lib.version)[2]) => lib.parsed.Minor = -1
        /\ MissingOrX(ComponentsOf(lib.version)[3]) => lib.parsed.Patch = -1
        /\ lib.step = "printed" => \A i \in 1..Len(lib.printed) : lib.printed[i] # "-"

---------------------------------------------------------------------------
(* Properties of the return of the fetcher's calls *)

\* C36: FetchAll and FetchAllWithCb eventually return, for every list of
\* items and every ceiling that NewManifestFetcher accepts, 0 included,
\* when every Get and every callback returns.
C36_CallsReturn ==
    \A k \in CallIds : (fetcher.call[k].pc # "idle") ~> (fetcher.call[k].pc = "returned")

---------------------------------------------------------------------------
(* Properties of the calls made after Close *)

\* C37: a Get or a RefreshAllStale that finds a stale entry after Close, or
\* while Close runs, does not crash: its queueRefresh does not panic on the
\* closed queue.
C37_NoCrashAfterClose ==
    \A c \in Clients :
        (th[c].op \in {"Get", "RefreshAllStale"} /\ th[c].pc = "send") =>
            panicked # "send on closed channel"

---------------------------------------------------------------------------
(* Properties of Get while the directory is cleared *)

\* C38: a Get that runs concurrently with Clear or ClearStale never crashes:
\* when the entry disappears between Get's read and its age check, no
\* goroutine of a Get brings the process down.
C38_GetSurvivesClear ==
    panicked = "nil pointer dereference" =>
        \E c \in Clients : th[c].op = "ClearStale" /\ th[c].pc = "panic"

---------------------------------------------------------------------------
(* Properties of the in-progress marks *)

\* a caller of queueRefresh(u) is between its LoadOrStore and its select
Sending(u) == \E c \in Clients : th[c].pc = "send" /\ th[c].qurl = u

\* the worker is inside its round for u, the Delete not yet done
Refreshing(u) ==
    /\ th[Worker].pc \in {"fetch", "create", "whdr", "wurl", "wdata", "rename", "unmark"}
    /\ th[Worker].url = u

---------------------------------------------------------------------------
(* Properties of the URL length in the header *)

\* C40: the URL length written into the header's 16-bit field is the length
\* in bytes of the URL that is stored, and the entry written for a URL is
\* read back for that URL, also when the URL has 65536 bytes or more.
C40_UrlSizeIsUrlLength ==
    (lib.pc = "header" /\ lib.step # "start") =>
        /\ HdrURLSize(lib.header) = lib.urlLen
        /\ lib.step = "read" => lib.read = [ok |-> TRUE, data |-> lib.content]

=============================================================================
